---- MODULE Spec2Model ----
(***************************************************************************)
(* A model of the readability engine (package readability): the DOM       *)
(* helpers of document.go, and Parse / grabArticle / prepArticle /         *)
(* postProcessContent of readability.go.                                   *)
(*                                                                         *)
(* A string is a sequence of runs [c, n]: n >= 1 copies of the character  *)
(* c, adjacent runs holding different characters ("xxx, x" is             *)
(* <<[c |-> "x", n |-> 3], [c |-> ",", n |-> 1], [c |-> " ", n |-> 1],    *)
(* [c |-> "x", n |-> 1]>>).  Two strings are equal iff their runs are.     *)
(*                                                                         *)
(* A DOM node is a record                                                  *)
(*   [type, tag, attr, kids, text]                                         *)
(* type is "doc", "elem" or "text" (html.DocumentNode, html.ElementNode,   *)
(* html.TextNode); tag is Node.Data of an element ("" otherwise); text is  *)
(* Node.Data of a text node; attr is Node.Attr, a sequence of [k, v, n, s]:*)
(* the key; the value when it is one of the words the engine tests (class, *)
(* id, style, href, ...); for the score attribute the number               *)
(* strconv.ParseFloat reads from it, in ten-thousandths (the code writes   *)
(* scores with "%.4f"); and for the content attribute of <meta> its value  *)
(* as a string of runs.                                                    *)
(* A node inside a tree is named by its path: the child indices from the   *)
(* root.  The Go code names it by pointer.                                 *)
(*                                                                         *)
(* Parse is a process: its loops and stages are steps of the state         *)
(* machine, in program order, and pc is the position of the invocation.    *)
(***************************************************************************)
EXTENDS Integers, Sequences, FiniteSets, TLC

\* ------------------------------------------------------------------ strings

WS == {" ", "\n"}

Last(s) == s[Len(s)]

\* the least element of a non-empty set of integers
Least(S) == CHOOSE i \in S : \A j \in S : i <= j

\* the string of n copies of c
Str(c, n) == IF n = 0 THEN <<>> ELSE <<[c |-> c, n |-> n]>>

\* s + t
Cat(s, t) ==
    IF s = <<>> THEN t
    ELSE IF t = <<>> THEN s
    ELSE IF Last(s).c = t[1].c
         THEN SubSeq(s, 1, Len(s) - 1) \o <<[c |-> t[1].c, n |-> Last(s).n + t[1].n]>>
                \o Tail(t)
         ELSE s \o t

\* the number of characters of the runs a..b of s that are in cs
RECURSIVE CountIn(_, _, _, _)
CountIn(s, a, b, cs) ==
    IF a > b THEN 0
    ELSE IF a = b THEN (IF s[a].c \in cs THEN s[a].n ELSE 0)
    ELSE CountIn(s, a, (a + b) \div 2, cs) + CountIn(s, (a + b) \div 2 + 1, b, cs)

\* the characters of the model whose UTF-8 encoding takes two bytes (every
\* other character of the model takes one)
TwoBytes == {"U+00E9"}

\* len(s), the number of bytes of s
StrLen(s) ==
    CountIn(s, 1, Len(s), {s[i].c : i \in 1..Len(s)}) + CountIn(s, 1, Len(s), TwoBytes)

\* strings.Count(s, c) for a one-character c
Count(s, c) == CountIn(s, 1, Len(s), {c})

\* strings.TrimSpace
TrimSpace(s) ==
    LET nz == {i \in 1..Len(s) : s[i].c \notin WS}
    IN  IF nz = {} THEN <<>> ELSE SubSeq(s, Least(nz), -Least({-i : i \in nz}))

\* rxNormalize.ReplaceAllString(s, " "): every maximal run of two or more
\* whitespace characters becomes one space; a single whitespace stays as is.
normalizeSpaces(s) ==
    LET Out(i) ==
          IF s[i].c \notin WS THEN s[i]
          ELSE IF i > 1 /\ s[i - 1].c \in WS THEN [c |-> " ", n |-> 0]
          ELSE IF s[i].n >= 2 \/ (i < Len(s) /\ s[i + 1].c \in WS) THEN [c |-> " ", n |-> 1]
          ELSE s[i]
    IN  SelectSeq([i \in 1..Len(s) |-> Out(i)], LAMBDA r : r.n > 0)

\* len(strings.Fields(s)): the number of maximal runs of non-whitespace
wordCount(s) ==
    Cardinality({i \in 1..Len(s) : s[i].c \notin WS /\ (i = 1 \/ s[i - 1].c \in WS)})

\* rxSentencePeriod `\.( |$)`
MatchSentencePeriod(s) ==
    \E i \in 1..Len(s) : s[i].c = "." /\ (i = Len(s) \/ s[i + 1].c = " ")

\* strings.Contains
Contains(s, sub) ==
    \/ sub = <<>>
    \/ \E i \in 1..(Len(s) - Len(sub) + 1) :
          LET k == Len(sub)
          IN  /\ \A j \in 1..k : s[i + j - 1].c = sub[j].c
              /\ \A j \in 2..(k - 1) : s[i + j - 1].n = sub[j].n
              /\ IF k = 1 THEN s[i].n >= sub[1].n
                 ELSE s[i].n >= sub[1].n /\ s[i + k - 1].n >= sub[k].n

\* --------------------------------------------------------------------- DOM

Elem(tag, attr, kids) ==
    [type |-> "elem", tag |-> tag, attr |-> attr, kids |-> kids, text |-> <<>>]

\* createElement
createElement(tag) == Elem(tag, <<>>, <<>>)

\* createTextNode
createTextNode(s) ==
    [type |-> "text", tag |-> "", attr |-> <<>>, kids |-> <<>>, text |-> s]

DocNode(kids) ==
    [type |-> "doc", tag |-> "", attr |-> <<>>, kids |-> kids, text |-> <<>>]

\* cloneNode: a new node with the type, the data and a copy of the attributes
\* of node, and the clones of its children appended in order
RECURSIVE cloneNode(_)
cloneNode(node) ==
    [type |-> node.type, tag |-> node.tag,
     attr |-> [i \in 1..Len(node.attr) |-> node.attr[i]],
     kids |-> [i \in 1..Len(node.kids) |-> cloneNode(node.kids[i])],
     text |-> node.text]

\* html.Attribute{Key: k, Val: v}
A(k, v) == [k |-> k, v |-> v, n |-> 0, s |-> <<>>]

\* tagName: "" for a node that is no element
tagName(n) == IF n.type = "elem" THEN n.tag ELSE ""

\* textContent of the children a..b of a node
RECURSIVE TextOf(_, _, _)
TextOf(kids, a, b) ==
    IF a > b THEN <<>>
    ELSE IF a = b
         THEN IF kids[a].type = "text" THEN kids[a].text
              ELSE TextOf(kids[a].kids, 1, Len(kids[a].kids))
         ELSE Cat(TextOf(kids, a, (a + b) \div 2), TextOf(kids, (a + b) \div 2 + 1, b))

\* textContent
textContent(n) == IF n.type = "text" THEN n.text ELSE TextOf(n.kids, 1, Len(n.kids))

AttrIdx(n, k) == {i \in 1..Len(n.attr) : n.attr[i].k = k}

hasAttribute(n, k) == AttrIdx(n, k) # {}

getAttribute(n, k) == IF hasAttribute(n, k) THEN n.attr[Least(AttrIdx(n, k))].v ELSE ""

\* setAttribute replaces the value of the first attribute of that name, or
\* appends the attribute
SetAttr(n, k, v, num) ==
    IF hasAttribute(n, k)
    THEN [n EXCEPT !.attr[Least(AttrIdx(n, k))] = [k |-> k, v |-> v, n |-> num, s |-> <<>>]]
    ELSE [n EXCEPT !.attr = Append(n.attr, [k |-> k, v |-> v, n |-> num, s |-> <<>>])]

setAttribute(n, k, v) == SetAttr(n, k, v, 0)

RemoveIdx(s, i) == SubSeq(s, 1, i - 1) \o SubSeq(s, i + 1, Len(s))

\* removeAttribute removes the first attribute of that name
removeAttribute(n, k) ==
    IF hasAttribute(n, k)
    THEN [n EXCEPT !.attr = RemoveIdx(n.attr, Least(AttrIdx(n, k)))]
    ELSE n

\* className trims; the class values of the model hold no whitespace
className(n) == getAttribute(n, "class")

id(n) == getAttribute(n, "id")

\* children: the element children
children(n) == SelectSeq(n.kids, LAMBDA c : c.type = "elem")

\* indices of the element children
ElemKidIdx(n) == {i \in 1..Len(n.kids) : n.kids[i].type = "elem"}

\* ----------------------------------------------------------------- paths

RECURSIVE NodeAt(_, _)
NodeAt(root, p) == IF p = <<>> THEN root ELSE NodeAt(root.kids[Head(p)], Tail(p))

RECURSIVE ReplaceAt(_, _, _)
ReplaceAt(root, p, new) ==
    IF p = <<>> THEN new
    ELSE [root EXCEPT !.kids[Head(p)] = ReplaceAt(root.kids[Head(p)], Tail(p), new)]

\* Node.RemoveChild at a path
RECURSIVE RemoveAt(_, _)
RemoveAt(root, p) ==
    IF Len(p) = 1 THEN [root EXCEPT !.kids = RemoveIdx(root.kids, p[1])]
    ELSE [root EXCEPT !.kids[Head(p)] = RemoveAt(root.kids[Head(p)], Tail(p))]

Parent(p) == SubSeq(p, 1, Len(p) - 1)

\* the paths of the elements below and including kids[a..b] that have the
\* tag ("*": any), in document order, each prefixed with pre
RECURSIVE TagPaths(_, _, _, _, _)
TagPaths(kids, a, b, tag, pre) ==
    IF a > b THEN <<>>
    ELSE IF a = b
         THEN IF kids[a].type # "elem" THEN <<>>
              ELSE (IF tag = "*" \/ kids[a].tag = tag THEN <<Append(pre, a)>> ELSE <<>>)
                   \o TagPaths(kids[a].kids, 1, Len(kids[a].kids), tag, Append(pre, a))
         ELSE TagPaths(kids, a, (a + b) \div 2, tag, pre)
              \o TagPaths(kids, (a + b) \div 2 + 1, b, tag, pre)

\* getElementsByTagName, as paths relative to n ("*": all); n itself is
\* part of the result when it matches
getElementsByTagName(n, tag) ==
    (IF n.type = "elem" /\ (tag = "*" \/ n.tag = tag) THEN <<<<>>>> ELSE <<>>)
    \o TagPaths(n.kids, 1, Len(n.kids), tag, <<>>)

IsPrefix(p, q) == Len(p) <= Len(q) /\ SubSeq(q, 1, Len(p)) = p

\* the path that stands for a nil node
NoPath == <<0>>

\* firstElementChild, as a path
firstElementChild(root, p) ==
    LET n == NodeAt(root, p)
    IN  IF ElemKidIdx(n) = {} THEN NoPath ELSE Append(p, Least(ElemKidIdx(n)))

\* nextElementSibling, as a path
nextElementSibling(root, p) ==
    IF p = <<>> THEN NoPath
    ELSE LET later == {i \in ElemKidIdx(NodeAt(root, Parent(p))) : i > Last(p)}
         IN  IF later = {} THEN NoPath ELSE Append(Parent(p), Least(later))

\* the path a node at q has once the node at p is removed (q not below p)
ShiftPath(q, p) ==
    IF Len(q) >= Len(p) /\ SubSeq(q, 1, Len(p) - 1) = Parent(p) /\ q[Len(p)] > Last(p)
    THEN [q EXCEPT ![Len(p)] = q[Len(p)] - 1]
    ELSE q

\* ----------------------------------------------------- regular expressions
\* The class and id values of the model are the words below; a regular
\* expression of readability.go is the set of these words it matches
\* (case-insensitive substring search).

rxUnlikelyCandidates == {"comment", "sidebar", "footer"}
rxOkMaybeItsACandidate == {"article"}
rxPositive == {"article", "content", "page"}
rxNegative == {"comment", "sidebar", "footer", "share", "hidden"}
rxByline == {"byline", "author"}
rxShare == {"share"}

\* rx.MatchString(className + " " + id)
MatchString(rx, n) == className(n) \in rx \/ id(n) \in rx

\* rxDisplayNone on the style values of the model
rxDisplayNone == {"display:none", "display: none"}

\* ------------------------------------------------------------- predicates

phrasingElems ==
    {"abbr", "audio", "b", "bdo", "br", "button", "cite", "code", "data",
     "datalist", "dfn", "em", "embed", "i", "img", "input", "kbd", "label",
     "mark", "math", "meter", "noscript", "object", "output", "progress", "q",
     "ruby", "samp", "script", "select", "small", "span", "strong", "sub",
     "sup", "textarea", "time", "var", "wbr"}

divToPElems ==
    {"a", "blockquote", "div", "dl", "img", "ol", "p", "pre", "select", "table", "ul"}

alterToDivExceptions == {"article", "div", "p", "section"}

RECURSIVE isPhrasingContent(_)
isPhrasingContent(n) ==
    \/ n.type = "text"
    \/ tagName(n) \in phrasingElems
    \/ /\ tagName(n) \in {"a", "del", "ins"}
       /\ \A i \in 1..Len(n.kids) : isPhrasingContent(n.kids[i])

isWhitespace(n) ==
    \/ n.type = "text" /\ TrimSpace(textContent(n)) = <<>>
    \/ n.type = "elem" /\ tagName(n) = "br"

RECURSIVE hasChildBlockElement(_)
hasChildBlockElement(n) ==
    \E i \in 1..Len(n.kids) :
        tagName(n.kids[i]) \in divToPElems \/ hasChildBlockElement(n.kids[i])

\* getInnerText
getInnerText(n, normalize) ==
    IF normalize THEN normalizeSpaces(TrimSpace(textContent(n)))
    ELSE TrimSpace(textContent(n))

\* len(getInnerText(n, true))
TextLength(n) == StrLen(getInnerText(n, TRUE))

isProbablyVisible(n) ==
    /\ getAttribute(n, "style") = "" \/ getAttribute(n, "style") \notin rxDisplayNone
    /\ ~hasAttribute(n, "hidden")

isValidByline(s) == StrLen(TrimSpace(s)) > 0 /\ StrLen(TrimSpace(s)) < 100

isElementWithoutContent(n) ==
    /\ n.type = "elem"
    /\ TrimSpace(textContent(n)) = <<>>
    /\ \/ Len(children(n)) = 0
       \/ Len(children(n)) =
            Len(getElementsByTagName(n, "br")) + Len(getElementsByTagName(n, "hr"))

\* rxHasContent `\S$` on a text node
hasSingleTagInsideElement(n, tag) ==
    /\ Len(children(n)) = 1
    /\ tagName(children(n)[1]) = tag
    /\ ~\E i \in 1..Len(n.kids) :
          /\ n.kids[i].type = "text"
          /\ n.kids[i].text # <<>>
          /\ Last(n.kids[i].text).c \notin WS

\* getLinkDensity is linkLength / textLength, and 0 when textLength is 0;
\* the model compares the two lengths
LinkLength(n) ==
    LET as == getElementsByTagName(n, "a")
        F[i \in 0..Len(as)] ==
            IF i = 0 THEN 0 ELSE F[i - 1] + TextLength(NodeAt(n, as[i]))
    IN  F[Len(as)]

\* getLinkDensity(n) < num/den
LinkDensityLess(n, num, den) ==
    IF TextLength(n) = 0 THEN 0 < num ELSE LinkLength(n) * den < num * TextLength(n)

\* getLinkDensity(n) > num/den
LinkDensityGreater(n, num, den) ==
    IF TextLength(n) = 0 THEN FALSE ELSE LinkLength(n) * den > num * TextLength(n)

\* hasAncestorTag: the loop tests the parent at depth 0, 1, ... and gives up
\* once depth > maxDepth (maxDepth > 0); Filter is applied to the ancestor
hasAncestorTag(root, p, tag, maxDepth, Filter(_)) ==
    \E d \in 0..(Len(p) - 1) :
        /\ maxDepth > 0 => d <= maxDepth
        /\ LET anc == NodeAt(root, SubSeq(p, 1, Len(p) - 1 - d))
           IN  tagName(anc) = tag /\ Filter(anc)

NoFilter(n) == TRUE

\* ------------------------------------------------------------ grabArticle
\* An invocation of Parse is a pair m = [r, l]: r is the Readability value
\* it runs on and l holds the local variables of Parse and grabArticle.
\* Every step of Parse is an operator from m to the m after the step.

\* TagsToScore as New() sets it
TagsToScore == {"section", "h2", "h3", "h4", "h5", "h6", "p", "td", "pre"}

\* getNextNode: depth-first traversal over the elements
RECURSIVE UpToSibling(_, _)
UpToSibling(root, p) ==
    IF p = <<>> THEN NoPath
    ELSE IF nextElementSibling(root, Parent(p)) # NoPath
         THEN nextElementSibling(root, Parent(p))
         ELSE UpToSibling(root, Parent(p))

getNextNode(root, p, ignoreSelfAndKids) ==
    IF ~ignoreSelfAndKids /\ firstElementChild(root, p) # NoPath
    THEN firstElementChild(root, p)
    ELSE IF nextElementSibling(root, p) # NoPath THEN nextElementSibling(root, p)
    ELSE UpToSibling(root, p)

\* removeAndGetNext(node) for node = l.node in the tree l.doc: the next node
\* is found first, then the node is unlinked.  l.page is the body element
\* grabArticle holds a pointer to; it is kept in l.pageNode once it leaves the
\* tree
removeAndGetNext(l) ==
    LET p    == l.node
        next == getNextNode(l.doc, p, TRUE)
    IN  [l EXCEPT
            !.doc = RemoveAt(l.doc, p),
            !.node = IF next = NoPath THEN NoPath ELSE ShiftPath(next, p),
            !.pageNode = IF l.page # NoPath /\ IsPrefix(p, l.page)
                         THEN <<NodeAt(l.doc, l.page)>> ELSE l.pageNode,
            !.page = IF l.page = NoPath \/ IsPrefix(p, l.page)
                     THEN NoPath ELSE ShiftPath(l.page, p)]

\* strings.Join(strings.Fields(strings.TrimSpace(s)), " ")
JoinFields(s) ==
    LET t == TrimSpace(s)
        Out(i) == IF t[i].c \notin WS THEN t[i]
                  ELSE IF t[i - 1].c \in WS THEN [c |-> " ", n |-> 0]
                  ELSE [c |-> " ", n |-> 1]
    IN  SelectSeq([i \in 1..Len(t) |-> Out(i)], LAMBDA r : r.n > 0)

\* the attribute values of the model that contain "author"
ContainsAuthor == {"author", "author name"}

\* the variant that takes a byline when one is recorded already
checkBylineAgain(n, articleByline) ==
    /\ \/ getAttribute(n, "rel") = "author"
       \/ getAttribute(n, "itemprop") \in ContainsAuthor
       \/ MatchString(rxByline, n)
    /\ isValidByline(textContent(n))

\* checkByline: whether the node is taken as the byline
checkByline(n, articleByline) ==
    /\ articleByline = <<>>
    /\ \/ getAttribute(n, "rel") = "author"
       \/ getAttribute(n, "itemprop") \in ContainsAuthor
       \/ MatchString(rxByline, n)
    /\ isValidByline(textContent(n))

\* "Put phrasing content into paragraphs": the loop over the child nodes of
\* a div, as a fold; open says that the last node of out is the <p> that
\* still collects phrasing siblings
TrimLastP(out) ==
    LET p == Last(out)
        solid == {i \in 1..Len(p.kids) : ~isWhitespace(p.kids[i])}
        keep == IF solid = {} THEN 0 ELSE -Least({-i : i \in solid})
    IN  [out EXCEPT ![Len(out)] = [p EXCEPT !.kids = SubSeq(p.kids, 1, keep)]]

WrapPhrasing(kids) ==
    LET F[i \in 0..Len(kids)] ==
          IF i = 0 THEN [out |-> <<>>, open |-> FALSE]
          ELSE LET a == F[i - 1]
                   c == kids[i]
               IN  IF isPhrasingContent(c)
                   THEN IF a.open
                        THEN [a EXCEPT !.out[Len(a.out)].kids =
                                            Append(a.out[Len(a.out)].kids, c)]
                        ELSE IF ~isWhitespace(c)
                        THEN [out |-> Append(a.out, Elem("p", <<>>, <<c>>)), open |-> TRUE]
                        ELSE [a EXCEPT !.out = Append(a.out, c)]
                   ELSE IF a.open
                        THEN [out |-> Append(TrimLastP(a.out), c), open |-> FALSE]
                        ELSE [a EXCEPT !.out = Append(a.out, c)]
    IN  F[Len(kids)].out

\* "Convert <div> without children block level elements into <p>": the
\* node that takes the place of the div n
ConvertDiv(n) ==
    LET w == [n EXCEPT !.kids = WrapPhrasing(n.kids)]
    IN  IF hasSingleTagInsideElement(w, "p") /\ LinkDensityLess(w, 1, 4)
        THEN children(w)[1]
        ELSE IF ~hasChildBlockElement(w) THEN [w EXCEPT !.tag = "p"]
        ELSE w

\* the variant that looks for a table among all the ancestors
PrepStepAnyDepth(m) ==
    LET l   == m.l
        p   == l.node
        n   == NodeAt(l.doc, p)
        tag == tagName(n)
        q1  == IF tag \in TagsToScore THEN Append(l.q, p) ELSE l.q
        n2  == ConvertDiv(n)
        d2  == ReplaceAt(l.doc, p, n2)
        PrepPc(x) == [x EXCEPT !.pc = IF x.node # NoPath THEN "prep"
                                      ELSE IF x.q = <<>> THEN "scale" ELSE "score"]
        out ==
        IF ~isProbablyVisible(n) THEN [m EXCEPT !.l = removeAndGetNext(l)]
        ELSE IF checkByline(n, m.r.articleByline)
        THEN [m EXCEPT !.l = removeAndGetNext(l),
                       !.r.articleByline = JoinFields(textContent(n))]
        ELSE IF /\ m.r.flags.stripUnlikelys
                /\ MatchString(rxUnlikelyCandidates, n)
                /\ ~MatchString(rxOkMaybeItsACandidate, n)
                /\ ~hasAncestorTag(l.doc, p, "table", 0, NoFilter)
                /\ tag # "body"
                /\ tag # "a"
        THEN [m EXCEPT !.l = removeAndGetNext(l)]
        ELSE IF /\ tag \in {"div", "section", "header", "h1", "h2", "h3", "h4", "h5", "h6"}
                /\ isElementWithoutContent(n)
        THEN [m EXCEPT !.l = removeAndGetNext(l)]
        ELSE IF tag # "div"
        THEN [m EXCEPT !.l.q = q1, !.l.node = getNextNode(l.doc, p, FALSE)]
        ELSE [m EXCEPT !.l.doc = d2,
                       !.l.q = IF tagName(n2) = "p" THEN Append(q1, p) ELSE q1,
                       !.l.node = getNextNode(d2, p, FALSE)]
    IN  [out EXCEPT !.l = PrepPc(@)]

\* the body of the node prepping loop of grabArticle for the element l.node
PrepStep(m) ==
    LET l   == m.l
        p   == l.node
        n   == NodeAt(l.doc, p)
        tag == tagName(n)
        q1  == IF tag \in TagsToScore THEN Append(l.q, p) ELSE l.q
        n2  == ConvertDiv(n)
        d2  == ReplaceAt(l.doc, p, n2)
        PrepPc(x) == [x EXCEPT !.pc = IF x.node # NoPath THEN "prep"
                                      ELSE IF x.q = <<>> THEN "scale" ELSE "score"]
        out ==
        IF ~isProbablyVisible(n) THEN [m EXCEPT !.l = removeAndGetNext(l)]
        ELSE IF checkByline(n, m.r.articleByline)
        THEN [m EXCEPT !.l = removeAndGetNext(l),
                       !.r.articleByline = JoinFields(textContent(n))]
        ELSE IF /\ m.r.flags.stripUnlikelys
                /\ MatchString(rxUnlikelyCandidates, n)
                /\ ~MatchString(rxOkMaybeItsACandidate, n)
                /\ ~hasAncestorTag(l.doc, p, "table", 3, NoFilter)
                /\ tag # "body"
                /\ tag # "a"
        THEN [m EXCEPT !.l = removeAndGetNext(l)]
        ELSE IF /\ tag \in {"div", "section", "header", "h1", "h2", "h3", "h4", "h5", "h6"}
                /\ isElementWithoutContent(n)
        THEN [m EXCEPT !.l = removeAndGetNext(l)]
        ELSE IF tag # "div"
        THEN [m EXCEPT !.l.q = q1, !.l.node = getNextNode(l.doc, p, FALSE)]
        ELSE [m EXCEPT !.l.doc = d2,
                       !.l.q = IF tagName(n2) = "p" THEN Append(q1, p) ELSE q1,
                       !.l.node = getNextNode(d2, p, FALSE)]
    IN  [out EXCEPT !.l = PrepPc(@)]

\* ---------------------------------------------------------------- scoring
\* A content score is kept in ten-thousandths: setContentScore writes it
\* with "%.4f" and getContentScore parses that text.

Unit == 10000

\* a / b rounded to the nearest integer (b > 0)
RoundDiv(a, b) == IF a >= 0 THEN (2 * a + b) \div (2 * b) ELSE -((b - 2 * a) \div (2 * b))

ScoreKey == "data-readability-score"

TableKey == "data-readability-table"

setContentScore(n, score) == SetAttr(n, ScoreKey, "num", score)

hasContentScore(n) == hasAttribute(n, ScoreKey)

getContentScore(n) ==
    IF hasAttribute(n, ScoreKey) THEN n.attr[Least(AttrIdx(n, ScoreKey))].n ELSE 0

\* the variant that weighs the class and the id whatever the flag says
getClassWeightAlways(n, flags) ==
    (IF className(n) # "" /\ className(n) \in rxNegative THEN -25 ELSE 0)
  + (IF className(n) # "" /\ className(n) \in rxPositive THEN 25 ELSE 0)
  + (IF id(n) # "" /\ id(n) \in rxNegative THEN -25 ELSE 0)
  + (IF id(n) # "" /\ id(n) \in rxPositive THEN 25 ELSE 0)

getClassWeight(n, flags) ==
    IF ~flags.useWeightClasses THEN 0
    ELSE (IF className(n) # "" /\ className(n) \in rxNegative THEN -25 ELSE 0)
       + (IF className(n) # "" /\ className(n) \in rxPositive THEN 25 ELSE 0)
       + (IF id(n) # "" /\ id(n) \in rxNegative THEN -25 ELSE 0)
       + (IF id(n) # "" /\ id(n) \in rxPositive THEN 25 ELSE 0)

\* the switch of initializeNode
TagBias(tag) ==
    IF tag = "div" THEN 5
    ELSE IF tag \in {"pre", "td", "blockquote"} THEN 3
    ELSE IF tag \in {"address", "ol", "ul", "dl", "dd", "dt", "li", "form"} THEN -3
    ELSE IF tag \in {"h1", "h2", "h3", "h4", "h5", "h6", "th"} THEN -5
    ELSE 0

initializeNode(n, flags) ==
    setContentScore(n, (getClassWeight(n, flags) + TagBias(tagName(n))) * Unit)

\* getNodeAncestors: the parent, grandparent, ... (maxDepth 0: all of them)
getNodeAncestors(p, maxDepth) ==
    LET k == IF maxDepth > 0 /\ maxDepth < Len(p) THEN maxDepth ELSE Len(p)
    IN  SubSeq([i \in 1..k |-> SubSeq(p, 1, Len(p) - i)], 1, k)

\* contentScore of an element whose inner text is innerText
ScoreBase(innerText) ==
    1 + Count(innerText, ",")
      + (IF StrLen(innerText) \div 100 < 3 THEN StrLen(innerText) \div 100 ELSE 3)

\* the variant that divides by the number of levels
ScoreDividerLinear(level) == level + 1

ScoreDivider(level) == IF level = 0 THEN 1 ELSE IF level = 1 THEN 2 ELSE level * 3

\* the callback of "Initialize and score ancestors" for the ancestor at path
\* anc, level levels above the scored element
ScoreAncestor(l, anc, level, base, flags) ==
    LET a  == NodeAt(l.doc, anc)
        a1 == IF hasContentScore(a) THEN a ELSE initializeNode(a, flags)
        a2 == setContentScore(a1,
                 getContentScore(a1) + RoundDiv(base * Unit, ScoreDivider(level)))
    IN  IF tagName(a) = "" \/ anc = <<>> \/ NodeAt(l.doc, Parent(anc)).type # "elem"
        THEN l
        ELSE [l EXCEPT !.doc = ReplaceAt(l.doc, anc, a2),
                       !.cands = IF hasContentScore(a) THEN l.cands
                                 ELSE Append(l.cands, anc)]

\* the callback of the scoring loop for the queued element l.q[l.i]
ScoreStep(m) ==
    LET l == m.l
        e == l.q[l.i]
        innerText == getInnerText(NodeAt(l.doc, e), TRUE)
        base == ScoreBase(innerText)
        ancs == getNodeAncestors(e, 3)
        F[i \in 0..Len(ancs)] ==
            IF i = 0 THEN l ELSE ScoreAncestor(F[i - 1], ancs[i], i - 1, base, m.r.flags)
        skip == \/ e = <<>>
                \/ tagName(NodeAt(l.doc, Parent(e))) = ""
                \/ StrLen(innerText) < 25
    IN  [m EXCEPT !.l = [(IF skip THEN l ELSE F[Len(ancs)]) EXCEPT
                            !.i = l.i + 1,
                            !.pc = IF l.i + 1 > Len(l.q) THEN "scale" ELSE "score"]]

\* score * (1 - getLinkDensity(n))
LinkScaled(n) ==
    IF TextLength(n) = 0 THEN getContentScore(n)
    ELSE RoundDiv(getContentScore(n) * (TextLength(n) - LinkLength(n)), TextLength(n))

\* sort.Slice with less(i, j) == Key(i) > Key(j), on a slice short enough
\* for the insertion sort of package sort
SortDesc(items, Key(_)) ==
    LET Ins(sorted, x) ==
          LET k == Cardinality({i \in 1..Len(sorted) : Key(sorted[i]) >= Key(x)})
          IN  SubSeq(sorted, 1, k) \o <<x>> \o SubSeq(sorted, k + 1, Len(sorted))
        F[i \in 0..Len(items)] == IF i = 0 THEN <<>> ELSE Ins(F[i - 1], items[i])
    IN  F[Len(items)]

\* the variant whose attempt works on r.doc itself, not on a clone of it
ScaleStepOnDoc(m) ==
    LET l == m.l
        L[i \in 0..Len(l.cands)] ==
            IF i = 0 THEN l.doc
            ELSE LET d == L[i - 1]
                     n == NodeAt(d, l.cands[i])
                 IN  ReplaceAt(d, l.cands[i], setContentScore(n, LinkScaled(n)))
        d == L[Len(l.cands)]
        Key(c) == getContentScore(NodeAt(d, c))
    IN  [m EXCEPT !.r.doc = d, !.l.doc = d, !.l.cands = SortDesc(l.cands, Key), !.l.pc = "top"]

\* "Scale the final candidates score based on link density" and the sort of
\* the candidates
ScaleStep(m) ==
    LET l == m.l
        L[i \in 0..Len(l.cands)] ==
            IF i = 0 THEN l.doc
            ELSE LET d == L[i - 1]
                     n == NodeAt(d, l.cands[i])
                 IN  ReplaceAt(d, l.cands[i], setContentScore(n, LinkScaled(n)))
        d == L[Len(l.cands)]
        Key(c) == getContentScore(NodeAt(d, c))
    IN  [m EXCEPT !.l.doc = d, !.l.cands = SortDesc(l.cands, Key), !.l.pc = "top"]

\* ----------------------------------------------------------- top candidate

\* getContentScore(c) / topScore >= 0.75 in float64 (x/0 is an infinity or NaN)
RatioAtLeast75(c, top) ==
    IF top > 0 THEN 4 * c >= 3 * top
    ELSE IF top < 0 THEN 4 * c <= 3 * top
    ELSE c > 0

\* "Find a better top candidate node": the first ancestor of top, below the
\* body, that at least three of the alternative ancestor lists contain
RECURSIVE CommonAncestor(_, _, _, _)
CommonAncestor(doc, top, par, alts) ==
    IF par = NoPath \/ tagName(NodeAt(doc, par)) = "body" THEN top
    ELSE IF Cardinality({i \in 1..Len(alts) : IsPrefix(par, alts[i]) /\ par # alts[i]}) >= 3
         THEN par
         ELSE CommonAncestor(doc, top, IF par = <<>> THEN NoPath ELSE Parent(par), alts)

\* "the scores shouldn't get too low": walk up while the parents' scores stay
\* at or above a third of the top score; take the first that scores higher
RECURSIVE BetterParent(_, _, _, _, _)
BetterParent(doc, top, par, lastScore, threshold) ==
    IF par = NoPath \/ tagName(NodeAt(doc, par)) = "body" THEN top
    ELSE LET up == IF par = <<>> THEN NoPath ELSE Parent(par)
             n  == NodeAt(doc, par)
         IN  IF ~hasContentScore(n) THEN BetterParent(doc, top, up, lastScore, threshold)
             ELSE IF 3 * getContentScore(n) < threshold THEN top
             ELSE IF getContentScore(n) > lastScore THEN par
             ELSE BetterParent(doc, top, up, getContentScore(n), threshold)

\* "If the top candidate is the only child, use parent instead"
RECURSIVE OnlyChildUp(_, _)
OnlyChildUp(doc, top) ==
    IF top = <<>> THEN top
    ELSE LET par == Parent(top)
         IN  IF tagName(NodeAt(doc, par)) # "body" /\ Len(children(NodeAt(doc, par))) = 1
             THEN OnlyChildUp(doc, par)
             ELSE top

InitIfNeeded(doc, p, flags) ==
    IF hasContentScore(NodeAt(doc, p)) THEN doc
    ELSE ReplaceAt(doc, p, initializeNode(NodeAt(doc, p), flags))

\* the else-branch of the top candidate selection: [doc, top]
SelectTop(doc, cands, flags, nTop) ==
    LET tops == SubSeq(cands, 1, IF Len(cands) > nTop THEN nTop ELSE Len(cands))
        t0   == tops[1]
        s0   == getContentScore(NodeAt(doc, t0))
        alts == SelectSeq(Tail(tops),
                    LAMBDA c : RatioAtLeast75(getContentScore(NodeAt(doc, c)), s0))
        t1   == IF Len(alts) >= 3 THEN CommonAncestor(doc, t0, Parent(t0), alts) ELSE t0
        d1   == InitIfNeeded(doc, t1, flags)
        s1   == getContentScore(NodeAt(d1, t1))
        t2   == BetterParent(d1, t1, Parent(t1), s1, s1)
        t3   == OnlyChildUp(d1, t2)
    IN  [doc |-> InitIfNeeded(d1, t3, flags), top |-> t3]

\* -------------------------------------------------------- sibling inclusion

\* the variant that gives no bonus for the class of the top candidate
AppendSiblingNoBonus(sib, isTop, topScore, topClass) ==
    LET thr5 == IF 50 * Unit > topScore THEN 50 * Unit ELSE topScore
    IN  \/ isTop
        \/ hasContentScore(sib) /\ 5 * getContentScore(sib) >= thr5
        \/ /\ tagName(sib) = "p"
           /\ \/ TextLength(sib) > 80 /\ LinkDensityLess(sib, 1, 4)
              \/ /\ TextLength(sib) < 80
                 /\ TextLength(sib) > 0
                 /\ LinkLength(sib) = 0
                 /\ MatchSentencePeriod(getInnerText(sib, TRUE))

\* whether the sibling sib of the top candidate is appended to the article;
\* the comparison with siblingScoreThreshold is multiplied by five
AppendSibling(sib, isTop, topScore, topClass) ==
    LET bonus == IF className(sib) = topClass /\ topClass # "" THEN topScore ELSE 0
        thr5  == IF 50 * Unit > topScore THEN 50 * Unit ELSE topScore
    IN  \/ isTop
        \/ hasContentScore(sib) /\ 5 * getContentScore(sib) + bonus >= thr5
        \/ /\ tagName(sib) = "p"
           /\ \/ TextLength(sib) > 80 /\ LinkDensityLess(sib, 1, 4)
              \/ /\ TextLength(sib) < 80
                 /\ TextLength(sib) > 0
                 /\ LinkLength(sib) = 0
                 /\ MatchSentencePeriod(getInnerText(sib, TRUE))

\* the article container built from the children of the top candidate's parent
CollectSiblings(parent, topIdx) ==
    LET top == parent.kids[topIdx]
        Keep(i) == /\ parent.kids[i].type = "elem"
                   /\ AppendSibling(parent.kids[i], i = topIdx,
                                    getContentScore(top), className(top))
        Ren(n) == IF tagName(n) \in alterToDivExceptions THEN n ELSE [n EXCEPT !.tag = "div"]
        F[i \in 0..Len(parent.kids)] ==
            IF i = 0 THEN <<>>
            ELSE IF Keep(i) THEN Append(F[i - 1], Ren(parent.kids[i]))
            ELSE F[i - 1]
    IN  Elem("div", <<>>, F[Len(parent.kids)])

\* from the choice of the top candidate to the article container
TopStep(m) ==
    LET l      == m.l
        page   == IF l.page # NoPath THEN NodeAt(l.doc, l.page) ELSE l.pageNode[1]
        needed == \/ l.cands = <<>>
                  \/ m.r.NTopCandidates = 0
                  \/ tagName(NodeAt(l.doc, l.cands[1])) = "body"
        sel    == SelectTop(l.doc, l.cands, m.r.flags, m.r.NTopCandidates)
        parent == IF needed
                  THEN [page EXCEPT !.kids =
                           <<initializeNode(Elem("div", <<>>, page.kids), m.r.flags)>>]
                  ELSE NodeAt(sel.doc, Parent(sel.top))
        topIdx == IF needed THEN 1 ELSE Last(sel.top)
    IN  [m EXCEPT !.l.needed = needed,
                  !.l.article = <<CollectSiblings(parent, topIdx)>>,
                  !.l.pc = "article"]

\* -------------------------------------------------------------- prepArticle

presentationalAttributes ==
    {"align", "background", "bgcolor", "border", "cellpadding", "cellspacing",
     "frame", "hspace", "rules", "style", "valign", "vspace"}

deprecatedSizeAttributeElems == {"table", "th", "td", "hr", "pre"}

\* the attribute values of the model that rxVideos matches
rxVideos == {"//www.youtube.com/embed/1"}

\* s without the elements at the indices in drop
DropIdx(s, drop) ==
    LET keep == (1..Len(s)) \ drop
        Nth(j) == CHOOSE i \in keep : Cardinality({x \in keep : x <= i}) = j
    IN  SubSeq([j \in 1..Cardinality(keep) |-> s[Nth(j)]], 1, Cardinality(keep))

\* removeAttribute(n, k) for every k of keys: the first attribute of each name
RemoveAttrs(n, keys) ==
    [n EXCEPT !.attr = DropIdx(n.attr,
        {Least(AttrIdx(n, k)) : k \in {x \in keys : hasAttribute(n, x)}})]

RECURSIVE cleanStyles(_)
cleanStyles(n) ==
    IF tagName(n) = "svg" THEN n
    ELSE LET n1 == RemoveAttrs(n, presentationalAttributes \cup
                      (IF tagName(n) \in deprecatedSizeAttributeElems
                       THEN {"width", "height"} ELSE {}))
             ks == n.kids
         IN  [n1 EXCEPT !.kids = SubSeq([i \in 1..Len(ks) |->
                 IF ks[i].type = "elem" THEN cleanStyles(ks[i]) ELSE ks[i]], 1, Len(ks))]

\* removeNodes: the list is walked from its end; a node that has a parent
\* and passes the filter, evaluated on the tree as it is then, is unlinked
removeNodes(root, list, Filter(_, _)) ==
    LET F[i \in 0..Len(list)] ==
          IF i = 0 THEN root
          ELSE LET t == F[i - 1]
                   p == list[Len(list) + 1 - i]
               IN  IF p # <<>> /\ Filter(t, p) THEN RemoveAt(t, p) ELSE t
    IN  F[Len(list)]

\* an attribute of the node matches rxVideos
HasVideoAttr(n) == \E i \in 1..Len(n.attr) : n.attr[i].v \in rxVideos

\* the embed is kept: an attribute matches rxVideos, or the node is an
\* <object> and rxVideos matches innerHTML, that is an attribute below it
IsKeptEmbed(n) ==
    \/ HasVideoAttr(n)
    \/ /\ tagName(n) = "object"
       /\ \E i \in 1..Len(getElementsByTagName(n, "*")) :
             LET q == getElementsByTagName(n, "*")[i]
             IN  q # <<>> /\ HasVideoAttr(NodeAt(n, q))

clean(root, tag) ==
    LET Filter(t, p) ==
          ~(tag \in {"object", "embed", "iframe"} /\ IsKeptEmbed(NodeAt(t, p)))
    IN  removeNodes(root, getElementsByTagName(root, tag), Filter)

isReadabilityDataTable(n) == hasAttribute(n, TableKey)

setReadabilityDataTable(n, isDataTable) ==
    IF isDataTable THEN setAttribute(n, TableKey, "true") ELSE removeAttribute(n, TableKey)

\* strconv.Atoi of the span values of the model; an error gives 0, and 0 counts as 1
Span(n, key) ==
    LET v == getAttribute(n, key)
    IN  IF v = "2" THEN 2 ELSE IF v = "3" THEN 3 ELSE 1

getRowAndColumnCount(table) ==
    LET trs == getElementsByTagName(table, "tr")
        Cols(tr) ==
            LET cells == getElementsByTagName(tr, "td")
                C[j \in 0..Len(cells)] ==
                    IF j = 0 THEN 0 ELSE C[j - 1] + Span(NodeAt(tr, cells[j]), "colspan")
            IN  C[Len(cells)]
        R[i \in 0..Len(trs)] ==
            IF i = 0 THEN [rows |-> 0, columns |-> 0]
            ELSE LET tr == NodeAt(table, trs[i])
                     r0 == R[i - 1]
                 IN  [rows |-> r0.rows + Span(tr, "rowspan"),
                      columns |-> IF Cols(tr) > r0.columns THEN Cols(tr) ELSE r0.columns]
    IN  R[Len(trs)]

\* the body of the loop of markDataTables for one table
MarkTable(table) ==
    LET Has(tag) == Len(getElementsByTagName(table, tag)) > 0
        caps == getElementsByTagName(table, "caption")
        rc == getRowAndColumnCount(table)
    IN  IF getAttribute(table, "role") = "presentation"
        THEN setReadabilityDataTable(table, FALSE)
        ELSE IF getAttribute(table, "datatable") = "0"
        THEN setReadabilityDataTable(table, FALSE)
        ELSE IF hasAttribute(table, "summary")
        THEN setReadabilityDataTable(table, TRUE)
        ELSE IF Len(caps) > 0 /\ Len(NodeAt(table, caps[1]).kids) > 0
        THEN setReadabilityDataTable(table, TRUE)
        ELSE IF Has("col") \/ Has("colgroup") \/ Has("tfoot") \/ Has("thead") \/ Has("th")
        THEN setReadabilityDataTable(table, TRUE)
        ELSE IF Len(getElementsByTagName(table, "table")) > 0
        THEN setReadabilityDataTable(table, FALSE)
        ELSE IF rc.rows >= 10 \/ rc.columns > 4
        THEN setReadabilityDataTable(table, TRUE)
        ELSE IF rc.rows * rc.columns > 10
        THEN setReadabilityDataTable(table, TRUE)
        ELSE table

markDataTables(root) ==
    LET tables == getElementsByTagName(root, "table")
        F[i \in 0..Len(tables)] ==
            IF i = 0 THEN root
            ELSE LET t == F[i - 1]
                 IN  ReplaceAt(t, tables[i], MarkTable(NodeAt(t, tables[i])))
    IN  F[Len(tables)]

\* the variant that does not look for a data table above the node
IsFishyInDataTable(root, p, tag, flags) ==
    LET n == NodeAt(root, p)
        N(t) == Len(getElementsByTagName(n, t))
        isList == tag \in {"ul", "ol"}
        weight == getClassWeight(n, flags)
        embeds == getElementsByTagName(n, "object") \o getElementsByTagName(n, "embed")
                    \o getElementsByTagName(n, "iframe")
        img == N("img")
        np == N("p")
        contentLength == TextLength(n)
        noFigure == ~hasAncestorTag(root, p, "figure", 3, NoFilter)
    IN  IF tag = "table" /\ isReadabilityDataTable(n) THEN FALSE
        ELSE IF weight < 0 THEN TRUE
        ELSE IF Count(getInnerText(n, TRUE), ",") >= 10 THEN FALSE
        ELSE IF \E i \in 1..Len(embeds) : IsKeptEmbed(NodeAt(n, embeds[i])) THEN FALSE
        ELSE \/ img > 1 /\ 2 * np < img /\ noFigure
             \/ ~isList /\ N("li") - 100 > np
             \/ N("input") > np \div 3
             \/ ~isList /\ contentLength < 25 /\ (img = 0 \/ img > 2) /\ noFigure
             \/ ~isList /\ weight < 25 /\ LinkDensityGreater(n, 1, 5)
             \/ weight >= 25 /\ LinkDensityGreater(n, 1, 2)
             \/ (Len(embeds) = 1 /\ contentLength < 75) \/ Len(embeds) > 1

\* the variant that does not test the embeds for a video
IsFishyNoVideo(root, p, tag, flags) ==
    LET n == NodeAt(root, p)
        N(t) == Len(getElementsByTagName(n, t))
        isList == tag \in {"ul", "ol"}
        weight == getClassWeight(n, flags)
        embeds == getElementsByTagName(n, "object") \o getElementsByTagName(n, "embed")
                    \o getElementsByTagName(n, "iframe")
        img == N("img")
        np == N("p")
        contentLength == TextLength(n)
        noFigure == ~hasAncestorTag(root, p, "figure", 3, NoFilter)
    IN  IF tag = "table" /\ isReadabilityDataTable(n) THEN FALSE
        ELSE IF hasAncestorTag(root, p, "table", -1, isReadabilityDataTable) THEN FALSE
        ELSE IF weight < 0 THEN TRUE
        ELSE IF Count(getInnerText(n, TRUE), ",") >= 10 THEN FALSE
        ELSE \/ img > 1 /\ 2 * np < img /\ noFigure
             \/ ~isList /\ N("li") - 100 > np
             \/ N("input") > np \div 3
             \/ ~isList /\ contentLength < 25 /\ (img = 0 \/ img > 2) /\ noFigure
             \/ ~isList /\ weight < 25 /\ LinkDensityGreater(n, 1, 5)
             \/ weight >= 25 /\ LinkDensityGreater(n, 1, 2)
             \/ (Len(embeds) = 1 /\ contentLength < 75) \/ Len(embeds) > 1

\* the variant that does not test the length of the text of the node
IsFishyAnyLength(root, p, tag, flags) ==
    LET n == NodeAt(root, p)
        N(t) == Len(getElementsByTagName(n, t))
        isList == tag \in {"ul", "ol"}
        weight == getClassWeight(n, flags)
        embeds == getElementsByTagName(n, "object") \o getElementsByTagName(n, "embed")
                    \o getElementsByTagName(n, "iframe")
        img == N("img")
        np == N("p")
        contentLength == TextLength(n)
        noFigure == ~hasAncestorTag(root, p, "figure", 3, NoFilter)
    IN  IF tag = "table" /\ isReadabilityDataTable(n) THEN FALSE
        ELSE IF hasAncestorTag(root, p, "table", -1, isReadabilityDataTable) THEN FALSE
        ELSE IF weight < 0 THEN TRUE
        ELSE IF Count(getInnerText(n, TRUE), ",") >= 10 THEN FALSE
        ELSE IF \E i \in 1..Len(embeds) : IsKeptEmbed(NodeAt(n, embeds[i])) THEN FALSE
        ELSE \/ img > 1 /\ 2 * np < img /\ noFigure
             \/ ~isList /\ N("li") - 100 > np
             \/ N("input") > np \div 3
             \/ ~isList /\ weight < 25 /\ LinkDensityGreater(n, 1, 5)
             \/ weight >= 25 /\ LinkDensityGreater(n, 1, 2)
             \/ (Len(embeds) = 1 /\ contentLength < 75) \/ Len(embeds) > 1

\* the filter of cleanConditionally: whether the node at p is removed
IsFishy(root, p, tag, flags) ==
    LET n == NodeAt(root, p)
        N(t) == Len(getElementsByTagName(n, t))
        isList == tag \in {"ul", "ol"}
        weight == getClassWeight(n, flags)
        embeds == getElementsByTagName(n, "object") \o getElementsByTagName(n, "embed")
                    \o getElementsByTagName(n, "iframe")
        img == N("img")
        np == N("p")
        contentLength == TextLength(n)
        noFigure == ~hasAncestorTag(root, p, "figure", 3, NoFilter)
    IN  IF tag = "table" /\ isReadabilityDataTable(n) THEN FALSE
        ELSE IF hasAncestorTag(root, p, "table", -1, isReadabilityDataTable) THEN FALSE
        ELSE IF weight < 0 THEN TRUE
        ELSE IF Count(getInnerText(n, TRUE), ",") >= 10 THEN FALSE
        ELSE IF \E i \in 1..Len(embeds) : IsKeptEmbed(NodeAt(n, embeds[i])) THEN FALSE
        ELSE \/ img > 1 /\ 2 * np < img /\ noFigure
             \/ ~isList /\ N("li") - 100 > np
             \/ N("input") > np \div 3
             \/ ~isList /\ contentLength < 25 /\ (img = 0 \/ img > 2) /\ noFigure
             \/ ~isList /\ weight < 25 /\ LinkDensityGreater(n, 1, 5)
             \/ weight >= 25 /\ LinkDensityGreater(n, 1, 2)
             \/ (Len(embeds) = 1 /\ contentLength < 75) \/ Len(embeds) > 1

\* the variant that does not read the cleanConditionally flag
cleanConditionallyAlways(root, tag, flags) ==
    LET Filter(t, p) == IsFishy(t, p, tag, flags)
    IN  removeNodes(root, getElementsByTagName(root, tag), Filter)

cleanConditionally(root, tag, flags) ==
    IF ~flags.cleanConditionally THEN root
    ELSE LET Filter(t, p) == IsFishy(t, p, tag, flags)
         IN  removeNodes(root, getElementsByTagName(root, tag), Filter)

\* the loop of prepArticle over children(articleContent) that calls
\* cleanMatchedNodes with the share filter.  The traversal below a child e
\* tests a node before its descendants and does not enter a node it removes,
\* so it unlinks the nodes below the children that pass the filter on the
\* tree as it is at the start.
CleanShare(root, charThresholds) ==
    LET Filter(t, p) ==
          /\ Len(p) >= 2
          /\ MatchString(rxShare, NodeAt(root, p))
          /\ StrLen(textContent(NodeAt(root, p))) < charThresholds
    IN  removeNodes(root, getElementsByTagName(root, "*"), Filter)

\* "If there is only one h2 and its text content substantially equals
\* article title": math.Abs(rate) < 0.5 with rate = (len(h2) - len(title)) /
\* len(title), an infinity or NaN for an empty title
CleanTitleH2(root, articleTitle) ==
    LET h2s == getElementsByTagName(root, "h2")
        h2Text == textContent(NodeAt(root, h2s[1]))
        diff == StrLen(h2Text) - StrLen(articleTitle)
        abs2 == IF diff < 0 THEN -2 * diff ELSE 2 * diff
    IN  IF Len(h2s) # 1 THEN root
        ELSE IF StrLen(articleTitle) = 0 \/ abs2 >= StrLen(articleTitle) THEN root
        ELSE IF (IF diff > 0 THEN Contains(h2Text, articleTitle)
                 ELSE Contains(articleTitle, h2Text))
        THEN clean(root, "h2")
        ELSE root

cleanHeaders(root, flags) ==
    LET Filter(t, p) == getClassWeight(NodeAt(t, p), flags) < 0
        r1 == removeNodes(root, getElementsByTagName(root, "h1"), Filter)
    IN  removeNodes(r1, getElementsByTagName(r1, "h2"), Filter)

\* "Remove extra paragraphs"
RemoveEmptyParagraphs(root) ==
    LET Filter(t, p) ==
          LET n == NodeAt(t, p)
              N(tag) == Len(getElementsByTagName(n, tag))
          IN  N("img") + N("embed") + N("object") + N("iframe") = 0
              /\ getInnerText(n, FALSE) = <<>>
    IN  removeNodes(root, getElementsByTagName(root, "p"), Filter)

\* nextElement, as an index into kids from index i on (0: nil)
nextElement(kids, i) ==
    LET stop == {j \in i..Len(kids) :
                    kids[j].type = "elem" \/ TrimSpace(textContent(kids[j])) # <<>>}
    IN  IF stop = {} THEN 0 ELSE Least(stop)

\* the loop that removes each <br> whose next element is a <p>; a removal
\* does not change what follows another <br>
RemoveBrBeforeP(root) ==
    LET Filter(t, p) ==
          LET sibs == NodeAt(root, Parent(p)).kids
              nx == nextElement(sibs, Last(p) + 1)
          IN  nx # 0 /\ tagName(sibs[nx]) = "p"
    IN  removeNodes(root, getElementsByTagName(root, "br"), Filter)

\* "Remove single-cell tables": the i-th table of the tree, once the tables
\* before it are done, is replaced by its only cell
RECURSIVE SingleCellTables(_, _)
SingleCellTables(root, i) ==
    LET tables == getElementsByTagName(root, "table")
        t == tables[i]
        table == NodeAt(root, t)
        b == IF hasSingleTagInsideElement(table, "tbody")
             THEN firstElementChild(root, t) ELSE t
        row == firstElementChild(root, b)
        cell == NodeAt(root, firstElementChild(root, row))
        newTag == IF \A k \in 1..Len(cell.kids) : isPhrasingContent(cell.kids[k])
                  THEN "p" ELSE "div"
    IN  IF i > Len(tables) THEN root
        ELSE IF /\ hasSingleTagInsideElement(NodeAt(root, b), "tr")
                /\ hasSingleTagInsideElement(NodeAt(root, row), "td")
                /\ t # <<>>
        THEN SingleCellTables(ReplaceAt(root, t, [cell EXCEPT !.tag = newTag]), i)
        ELSE SingleCellTables(root, i + 1)

\* the calls of prepArticle, in order
PrepStages ==
    << <<"cleanStyles", "">>, <<"markDataTables", "">>,
       <<"cleanConditionally", "form">>, <<"cleanConditionally", "fieldset">>,
       <<"clean", "object">>, <<"clean", "embed">>, <<"clean", "h1">>,
       <<"clean", "footer">>, <<"clean", "link">>, <<"clean", "aside">>,
       <<"share", "">>, <<"h2", "">>,
       <<"clean", "iframe">>, <<"clean", "input">>, <<"clean", "textarea">>,
       <<"clean", "select">>, <<"clean", "button">>, <<"cleanHeaders", "">>,
       <<"cleanConditionally", "table">>, <<"cleanConditionally", "ul">>,
       <<"cleanConditionally", "div">>,
       <<"paragraphs", "">>, <<"br", "">>, <<"tables", "">> >>

\* the call l.k of prepArticle on the article container
PrepArticleStep(m) ==
    LET st  == PrepStages[m.l.k]
        art == m.l.article[1]
        new == CASE st[1] = "cleanStyles" -> cleanStyles(art)
                 [] st[1] = "markDataTables" -> markDataTables(art)
                 [] st[1] = "cleanConditionally" -> cleanConditionally(art, st[2], m.r.flags)
                 [] st[1] = "clean" -> clean(art, st[2])
                 [] st[1] = "share" -> CleanShare(art, m.r.CharThresholds)
                 [] st[1] = "h2" -> CleanTitleH2(art, m.r.articleTitle)
                 [] st[1] = "cleanHeaders" -> cleanHeaders(art, m.r.flags)
                 [] st[1] = "paragraphs" -> RemoveEmptyParagraphs(art)
                 [] st[1] = "br" -> RemoveBrBeforeP(art)
                 [] st[1] = "tables" -> SingleCellTables(art, 1)
    IN  [m EXCEPT !.l.article = <<new>>, !.l.k = m.l.k + 1,
                  !.l.pc = IF m.l.k + 1 > Len(PrepStages) THEN "check" ELSE "article"]

\* the variant that builds no page div around a selected candidate
WrapPageNeededOnly(article, needed) ==
    LET fc == firstElementChild(article, <<>>)
    IN  IF needed /\ fc # NoPath /\ tagName(NodeAt(article, fc)) = "div"
        THEN ReplaceAt(article, fc,
                 setAttribute(setAttribute(NodeAt(article, fc), "id", "readability-page-1"),
                              "class", "page"))
        ELSE article

\* the wrapping of the article container after prepArticle: the page div
WrapPage(article, needed) ==
    LET fc  == firstElementChild(article, <<>>)
        div == Elem("div", <<A("id", "readability-page-1"), A("class", "page")>>,
                    article.kids)
    IN  IF ~needed THEN [article EXCEPT !.kids = <<div>>]
        ELSE IF fc # NoPath /\ tagName(NodeAt(article, fc)) = "div"
        THEN ReplaceAt(article, fc,
                 setAttribute(setAttribute(NodeAt(article, fc), "id", "readability-page-1"),
                              "class", "page"))
        ELSE article

\* the variant that clears useWeightClasses first
RelaxSwapped(flags) ==
    IF flags.useWeightClasses THEN [flags EXCEPT !.useWeightClasses = FALSE]
    ELSE IF flags.stripUnlikelys THEN [flags EXCEPT !.stripUnlikelys = FALSE]
    ELSE [flags EXCEPT !.cleanConditionally = FALSE]

\* the flag that a too short attempt clears (called with a flag still set)
Relax(flags) ==
    IF flags.stripUnlikelys THEN [flags EXCEPT !.stripUnlikelys = FALSE]
    ELSE IF flags.useWeightClasses THEN [flags EXCEPT !.useWeightClasses = FALSE]
    ELSE [flags EXCEPT !.cleanConditionally = FALSE]

\* the variant that appends the attempt twice
RecordTwice(attempts, articleContent, textLength) ==
    attempts \o <<[articleContent |-> articleContent, textLength |-> textLength],
                  [articleContent |-> articleContent, textLength |-> textLength]>>

\* r.attempts = append(r.attempts, parseAttempt{articleContent, textLength})
Record(attempts, articleContent, textLength) ==
    Append(attempts, [articleContent |-> articleContent, textLength |-> textLength])

\* the variant that takes the other end of the sorted attempts
LongestLast(sorted) ==
    IF sorted[Len(sorted)].textLength = 0 THEN <<>>
    ELSE <<sorted[Len(sorted)].articleContent>>

\* the variant that returns the longest attempt even when it holds no text
LongestEvenEmpty(sorted) == <<sorted[1].articleContent>>

\* "just return the longest text we found": the value grabArticle returns
\* from the sorted attempts (<<>>: nil)
Longest(sorted) ==
    IF sorted[1].textLength = 0 THEN <<>> ELSE <<sorted[1].articleContent>>

\* the end of an attempt: the length check, the relaxation of the next flag
\* and the fallback to the longest attempt.  l.content is the value
\* grabArticle returns (<<>>: nil) once l.pc leaves the loop
CheckStep(m) ==
    LET art == WrapPage(m.l.article[1], m.l.needed)
        textLength == TextLength(art)
        att == Record(m.r.attempts, art, textLength)
        Key(a) == a.textLength
        f == m.r.flags
    IN  IF textLength >= m.r.CharThresholds
        THEN [m EXCEPT !.l.content = <<art>>, !.l.pc = "post"]
        ELSE IF f.stripUnlikelys \/ f.useWeightClasses \/ f.cleanConditionally
        THEN [m EXCEPT !.r.flags = Relax(f), !.r.attempts = att, !.l.pc = "grab"]
        ELSE [m EXCEPT !.r.attempts = SortDesc(att, Key),
                       !.l.content = Longest(SortDesc(att, Key)),
                       !.l.pc = "post"]

\* the head of the loop of grabArticle: the clone of r.doc, the page and the
\* first node of the traversal; without a body grabArticle returns nil
GrabStep(m) ==
    LET doc    == cloneNode(m.r.doc)
        bodies == getElementsByTagName(doc, "body")
        htmls  == getElementsByTagName(doc, "html")
        node   == IF htmls = <<>> THEN NoPath ELSE htmls[1]
    IN  IF bodies = <<>> THEN [m EXCEPT !.l.content = <<>>, !.l.pc = "post"]
        ELSE [m EXCEPT !.l.doc = doc, !.l.page = bodies[1], !.l.pageNode = <<>>,
                       !.l.node = node, !.l.q = <<>>, !.l.i = 1, !.l.cands = <<>>,
                       !.l.k = 1, !.l.article = <<>>,
                       !.l.pc = IF node = NoPath THEN "scale" ELSE "prep"]

\* ------------------------------------------------------------ prepDocument

\* a nil filter of removeNodes
NilFilter(t, p) == TRUE

\* the variant that leaves the noscript elements
removeScriptsOnly(doc) ==
    removeNodes(doc, getElementsByTagName(doc, "script"), NilFilter)

removeScripts(doc) ==
    LET d1 == removeNodes(doc, getElementsByTagName(doc, "script"), NilFilter)
    IN  removeNodes(d1, getElementsByTagName(d1, "noscript"), NilFilter)

\* whether p names a node of the tree
RECURSIVE ValidPath(_, _)
ValidPath(root, p) ==
    \/ p = <<>>
    \/ Head(p) \in 1..Len(root.kids) /\ ValidPath(root.kids[Head(p)], Tail(p))

\* the callback of replaceBrs for the <br> at p.  The first loop unlinks
\* every following sibling that nextElement stops at: tagName(next) is never
\* "BR", so it runs until no element and no non-whitespace text follows.
\* The <p> then takes what is left, its trailing whitespace is dropped, and
\* the parent's tag is never "P".
ReplaceBr(root, p) ==
    LET par   == NodeAt(root, Parent(p))
        after == SubSeq(par.kids, Last(p) + 1, Len(par.kids))
        replaced == nextElement(after, 1) # 0
        rest  == SelectSeq(after, LAMBDA c :
                     ~(c.type = "elem" \/ TrimSpace(textContent(c)) # <<>>))
        taken == IF \A j \in 1..Len(rest) : isPhrasingContent(rest[j]) THEN rest ELSE <<>>
        para  == TrimLastP(<<Elem("p", <<>>, taken)>>)[1]
    IN  IF ~replaced THEN root
        ELSE ReplaceAt(root, Parent(p),
                 [par EXCEPT !.kids = SubSeq(par.kids, 1, Last(p) - 1) \o <<para>>])

\* replaceBrs(elem) for the element at path elem: the <br> elements are
\* listed first; one that has left the tree by its turn has no next sibling
replaceBrs(root, elem) ==
    LET brs == SelectSeq(getElementsByTagName(root, "br"), LAMBDA p : IsPrefix(elem, p))
        F[i \in 0..Len(brs)] ==
            IF i = 0 THEN root
            ELSE LET t == F[i - 1]
                 IN  IF ValidPath(t, brs[i]) /\ tagName(NodeAt(t, brs[i])) = "br"
                     THEN ReplaceBr(t, brs[i]) ELSE t
    IN  F[Len(brs)]

\* replaceNodeTags(list, newTagName) through setNodeTag
replaceNodeTags(root, list, newTagName) ==
    LET F[i \in 0..Len(list)] ==
            IF i = 0 THEN root
            ELSE LET t == F[i - 1]
                     p == list[Len(list) + 1 - i]
                 IN  ReplaceAt(t, p, [NodeAt(t, p) EXCEPT !.tag = newTagName])
    IN  F[Len(list)]

prepDocument(doc) ==
    LET d1 == removeNodes(doc, getElementsByTagName(doc, "style"), NilFilter)
        bodies == getElementsByTagName(d1, "body")
        d2 == IF bodies = <<>> THEN d1 ELSE replaceBrs(d1, bodies[1])
    IN  replaceNodeTags(d2, getElementsByTagName(d2, "font"), "SPAN")

\* ---------------------------------------------------------------- metadata
\* The content attribute of a <meta> holds a string of runs in s, or, for an
\* image, a URI word in v.  The name and property values of the model are
\* lower-case words without whitespace; a pattern is the set of the words it
\* matches.

AS(k, s) == [k |-> k, v |-> "", n |-> 0, s |-> s]

rxPropertyPattern == {"og:title", "og:description", "og:site_name", "og:image", "dc:creator"}

rxNamePattern == {"author", "description", "title", "twitter:title", "og:site_name"}

\* the URI words of the model
AbsoluteURIs == {"http://other.org/x", "http://other.org/icon.png"}

RelativeURIs == {"/x", "/icon.png"}

\* scheme and host of the page URLs that url.ParseRequestURI accepts
Origin(base) == IF base = "http://example.com/a" THEN "http://example.com" ELSE ""

\* the variant that puts the origin of base before every URI
toAbsoluteURIPrefixed(uri, base) ==
    IF uri = "" \/ base = "" THEN ""
    ELSE Origin(base) \o uri

\* the variant that returns a URI without a host as it is
toAbsoluteURIUnresolved(uri, base) ==
    IF uri = "" \/ base = "" THEN ""
    ELSE uri

\* toAbsoluteURI; base "" is a nil *url.URL.  A javascript: or mailto: URI
\* has a scheme and no host, url.Parse accepts it and it resolves to itself
toAbsoluteURI(uri, base) ==
    IF uri = "" \/ base = "" THEN ""
    ELSE IF uri = "#top" THEN uri
    ELSE IF uri \in AbsoluteURIs THEN uri
    ELSE IF uri \in RelativeURIs THEN Origin(base) \o uri
    ELSE uri

\* the key under which the first loop of getArticleMetadata stores a <meta>
MetaKey(e) ==
    IF getAttribute(e, "property") \in rxPropertyPattern THEN getAttribute(e, "property")
    ELSE IF getAttribute(e, "name") \in rxNamePattern THEN getAttribute(e, "name")
    ELSE ""

\* values after the first loop, as a function of the name: <<>> when the key
\* is absent, else <<content>> of the last <meta> that stores under it
Values(doc, name) ==
    LET metas == getElementsByTagName(doc, "meta")
        Has(p) == LET e == NodeAt(doc, p)
                      c == e.attr[Least(AttrIdx(e, "content"))]
                  IN  /\ hasAttribute(e, "content")
                      /\ c.v # "" \/ c.s # <<>>
                      /\ MetaKey(e) = name
        hits == SelectSeq(metas, Has)
        e == NodeAt(doc, Last(hits))
    IN  IF hits = <<>> THEN <<>>
        ELSE <<[e.attr[Least(AttrIdx(e, "content"))] EXCEPT !.s = TrimSpace(@)]>>

\* the value of the first name of names that is a key of values ("" if none)
FirstValue(doc, names) ==
    LET ok == {i \in 1..Len(names) : Values(doc, names[i]) # <<>>}
    IN  IF ok = {} THEN A("content", "") ELSE Values(doc, names[Least(ok)])[1]

\* getArticleTitle for a <title> without separator characters and without
\* ": " (the titles of the model): only the third branch applies, and
\* titleHadHierarchicalSeparators stays false
getArticleTitle(doc) ==
    LET titles == getElementsByTagName(doc, "title")
        origTitle == IF titles = <<>> THEN <<>> ELSE getInnerText(NodeAt(doc, titles[1]), TRUE)
        hOnes == getElementsByTagName(doc, "h1")
        cur == IF (StrLen(origTitle) > 150 \/ StrLen(origTitle) < 15) /\ Len(hOnes) = 1
               THEN getInnerText(NodeAt(doc, hOnes[1]), TRUE) ELSE origTitle
        curTitle == normalizeSpaces(TrimSpace(cur))
    IN  IF wordCount(curTitle) <= 4 THEN origTitle ELSE curTitle

\* rxFaviconSize on the sizes values of the model; the href values hold no size
FaviconSize(link) ==
    LET v == getAttribute(link, "sizes")
    IN  IF v = "16x16" THEN 16 ELSE IF v = "32x32" THEN 32 ELSE 0

\* getArticleFavicon
getArticleFavicon(doc, base) ==
    LET links == getElementsByTagName(doc, "link")
        F[i \in 0..Len(links)] ==
            IF i = 0 THEN [favicon |-> "", faviconSize |-> -1]
            ELSE LET link == NodeAt(doc, links[i])
                     acc == F[i - 1]
                 IN  IF \/ getAttribute(link, "href") = ""
                        \/ getAttribute(link, "rel") \notin {"icon", "shortcut icon"}
                     THEN acc
                     ELSE IF /\ getAttribute(link, "type") # "image/png"
                             /\ getAttribute(link, "href") \notin {"/icon.png", "http://other.org/icon.png"}
                     THEN acc
                     ELSE IF FaviconSize(link) > acc.faviconSize
                     THEN [favicon |-> getAttribute(link, "href"),
                           faviconSize |-> FaviconSize(link)]
                     ELSE acc
    IN  toAbsoluteURI(F[Len(links)].favicon, base)

\* getArticleMetadata
getArticleMetadata(r) ==
    LET title == FirstValue(r.doc, <<"dc:title", "dcterm:title", "og:title",
                     "weibo:article:title", "weibo:webpage:title", "title",
                     "twitter:title">>).s
    IN  [Title    |-> IF title = <<>> THEN getArticleTitle(r.doc) ELSE title,
         Byline   |-> FirstValue(r.doc, <<"dc:creator", "dcterm:creator", "author">>).s,
         Excerpt  |-> FirstValue(r.doc, <<"dc:description", "dcterm:description",
                          "og:description", "weibo:article:description",
                          "weibo:webpage:description", "description",
                          "twitter:description">>).s,
         SiteName |-> FirstValue(r.doc, <<"og:site_name">>).s,
         Image    |-> toAbsoluteURI(FirstValue(r.doc, <<"og:image", "image",
                          "twitter:image">>).v, r.documentURI),
         Favicon  |-> getArticleFavicon(r.doc, r.documentURI)]

\* ------------------------------------------------------- postProcessContent

\* the callback of fixRelativeURIs for the element at p and its attribute key
FixURI(root, p, key, base) ==
    LET n == NodeAt(root, p)
        uri == getAttribute(n, key)
        newURI == toAbsoluteURI(uri, base)
    IN  IF uri = "" THEN root
        ELSE IF key = "href" /\ uri = "javascript:void(0)"
        THEN ReplaceAt(root, p, createTextNode(textContent(n)))
        ELSE IF newURI = "" THEN ReplaceAt(root, p, removeAttribute(n, key))
        ELSE ReplaceAt(root, p, setAttribute(n, key, newURI))

\* one loop of fixRelativeURIs; a link below a link that was replaced by its
\* text has left the tree, and replaceNode or an attribute change on it does
\* nothing to the tree
FixAll(root, tag, key, base) ==
    LET list == getElementsByTagName(root, tag)
        F[i \in 0..Len(list)] ==
            IF i = 0 THEN root
            ELSE LET t == F[i - 1]
                 IN  IF list[i] # <<>> /\ ValidPath(t, list[i])
                        /\ tagName(NodeAt(t, list[i])) = tag
                     THEN FixURI(t, list[i], key, base) ELSE t
    IN  F[Len(list)]

fixRelativeURIs(root, base) == FixAll(FixAll(root, "a", "href", base), "img", "src", base)

\* cleanClasses; a class value of the model is one word
RECURSIVE cleanClasses(_, _)
cleanClasses(n, ClassesToPreserve) ==
    LET n1 == IF className(n) # "" /\ className(n) \in ClassesToPreserve
              THEN setAttribute(n, "class", className(n))
              ELSE removeAttribute(n, "class")
        ks == n.kids
    IN  [n1 EXCEPT !.kids = SubSeq([i \in 1..Len(ks) |->
            IF ks[i].type = "elem" THEN cleanClasses(ks[i], ClassesToPreserve)
            ELSE ks[i]], 1, Len(ks))]

\* the variant that stops at the root
clearReadabilityAttrOfRoot(n) ==
    removeAttribute(removeAttribute(n, ScoreKey), TableKey)

RECURSIVE clearReadabilityAttr(_)
clearReadabilityAttr(n) ==
    LET n1 == removeAttribute(removeAttribute(n, ScoreKey), TableKey)
        ks == n.kids
    IN  [n1 EXCEPT !.kids = SubSeq([i \in 1..Len(ks) |->
            IF ks[i].type = "elem" THEN clearReadabilityAttr(ks[i]) ELSE ks[i]],
            1, Len(ks))]

postProcessContent(r, articleContent) ==
    clearReadabilityAttr(
        cleanClasses(fixRelativeURIs(articleContent, r.documentURI), r.ClassesToPreserve))

\* ------------------------------------------------------------------ output
\* html.Render, as a sequence of tokens [t, tag, attr, s]: an opening tag
\* with its attributes, a closing tag, or text; text that follows text is
\* one text.  The characters of the model need no escaping.

voidElements == {"area", "base", "br", "col", "embed", "hr", "img", "input",
                 "link", "meta", "source", "track", "wbr"}

Token(t, tag, attr, s) == [t |-> t, tag |-> tag, attr |-> attr, s |-> s]

\* the concatenation of two renderings
Join(x, y) ==
    IF x # <<>> /\ y # <<>> /\ Last(x).t = "text" /\ y[1].t = "text"
    THEN SubSeq(x, 1, Len(x) - 1) \o <<Token("text", "", <<>>, Cat(Last(x).s, y[1].s))>>
           \o Tail(y)
    ELSE x \o y

\* the rendering of the children a..b
RECURSIVE Render(_, _, _)
Render(kids, a, b) ==
    IF a > b THEN <<>>
    ELSE IF a < b
    THEN Join(Render(kids, a, (a + b) \div 2), Render(kids, (a + b) \div 2 + 1, b))
    ELSE IF kids[a].type = "text"
    THEN (IF kids[a].text = <<>> THEN <<>> ELSE <<Token("text", "", <<>>, kids[a].text)>>)
    ELSE IF kids[a].tag \in voidElements
    THEN <<Token("open", kids[a].tag, kids[a].attr, <<>>)>>
    ELSE <<Token("open", kids[a].tag, kids[a].attr, <<>>)>>
           \o Render(kids[a].kids, 1, Len(kids[a].kids))
           \o <<Token("close", kids[a].tag, <<>>, <<>>)>>

\* strings.TrimSpace on a rendering
TrimTokens(x) ==
    LET TrimAt(y, i, Cut(_)) ==
          IF y = <<>> \/ y[i].t # "text" THEN y
          ELSE IF Cut(y[i].s) = <<>> THEN RemoveIdx(y, i)
          ELSE [y EXCEPT ![i].s = Cut(y[i].s)]
        TrimLeft(s) == SubSeq(s, Least({i \in 1..(Len(s) + 1) :
                                  i > Len(s) \/ s[i].c \notin WS}), Len(s))
        TrimRight(s) == SubSeq(s, 1, -Least({-i : i \in {j \in 0..Len(s) :
                                  j = 0 \/ s[j].c \notin WS}}))
        x1 == TrimAt(x, 1, TrimLeft)
    IN  TrimAt(x1, Len(x1), TrimRight)

\* innerHTML
innerHTML(n) == TrimTokens(Render(n.kids, 1, Len(n.kids)))

\* -------------------------------------------------------------------- Parse

\* an error value: the text before the detail, and the number in the detail
Error(msg, n) == [msg |-> msg, n |-> n]

NoError == Error("", 0)

\* Article{}
ZeroArticle ==
    [Title |-> <<>>, Byline |-> <<>>, Node |-> <<>>, Content |-> <<>>,
     TextContent |-> <<>>, Length |-> 0, Excerpt |-> <<>>, SiteName |-> <<>>,
     Image |-> "", Favicon |-> ""]

\* &html.Node{}
ZeroNode == [type |-> "zero", tag |-> "", attr |-> <<>>, kids |-> <<>>, text |-> <<>>]

\* the page URLs url.ParseRequestURI accepts
ValidURLs == {"http://example.com/a"}

\* the variant that keeps the byline of the previous Parse
ResetKeepsByline(m) ==
    LET ok == m.l.pageURL \in ValidURLs
        r1 == [m.r EXCEPT !.articleTitle = <<>>, !.attempts = <<>>,
                          !.flags = [stripUnlikelys |-> TRUE, useWeightClasses |-> TRUE,
                                     cleanConditionally |-> TRUE],
                          !.documentURI = IF ok THEN m.l.pageURL ELSE ""]
    IN  IF ok THEN [m EXCEPT !.r = r1, !.l.pc = "parse"]
        ELSE [m EXCEPT !.r = r1, !.l.pc = "done",
                       !.l.result = <<[article |-> ZeroArticle,
                                       err |-> Error("failed to parse URL", 0)]>>]

\* "Reset parser data" and "Parse page URL"
ResetStep(m) ==
    LET ok == m.l.pageURL \in ValidURLs
        r1 == [m.r EXCEPT !.articleTitle = <<>>, !.articleByline = <<>>,
                          !.attempts = <<>>,
                          !.flags = [stripUnlikelys |-> TRUE, useWeightClasses |-> TRUE,
                                     cleanConditionally |-> TRUE],
                          !.documentURI = IF ok THEN m.l.pageURL ELSE ""]
    IN  IF ok THEN [m EXCEPT !.r = r1, !.l.pc = "parse"]
        ELSE [m EXCEPT !.r = r1, !.l.pc = "done",
                       !.l.result = <<[article |-> ZeroArticle,
                                       err |-> Error("failed to parse URL", 0)]>>]

\* the variant that counts what removeScripts leaves
MaxElemsAfterScripts(m) ==
    LET numTags == Len(getElementsByTagName(removeScripts(m.r.doc), "*"))
    IN  IF m.r.MaxElemsToParse > 0 /\ numTags > m.r.MaxElemsToParse
        THEN [m EXCEPT !.l.pc = "done",
                       !.l.result = <<[article |-> ZeroArticle,
                                       err |-> Error("too many elements", numTags)]>>]
        ELSE [m EXCEPT !.l.pc = "scripts"]

\* "Avoid parsing too large documents"
MaxElemsStep(m) ==
    LET numTags == Len(getElementsByTagName(m.r.doc, "*"))
    IN  IF m.r.MaxElemsToParse > 0 /\ numTags > m.r.MaxElemsToParse
        THEN [m EXCEPT !.l.pc = "done",
                       !.l.result = <<[article |-> ZeroArticle,
                                       err |-> Error("too many elements", numTags)]>>]
        ELSE [m EXCEPT !.l.pc = "scripts"]

\* "Fetch metadata"
MetadataStep(m) ==
    LET metadata == getArticleMetadata(m.r)
    IN  [m EXCEPT !.l.metadata = metadata, !.r.articleTitle = metadata.Title,
                  !.l.pc = "grab"]

\* Parse from the return of grabArticle to its own return
FinishStep(m) ==
    LET found == m.l.content # <<>>
        articleContent == postProcessContent(m.r, m.l.content[1])
        paragraphs == getElementsByTagName(articleContent, "p")
        excerpt == IF found /\ m.l.metadata.Excerpt = <<>> /\ paragraphs # <<>>
                   THEN TrimSpace(textContent(NodeAt(articleContent, paragraphs[1])))
                   ELSE m.l.metadata.Excerpt
        fc == firstElementChild(articleContent, <<>>)
        finalTextContent == IF found THEN TrimSpace(textContent(articleContent)) ELSE <<>>
    IN  [m EXCEPT !.l.pc = "done",
                  !.l.result = <<[err |-> NoError, article |->
            [Title       |-> m.r.articleTitle,
             Byline      |-> IF m.l.metadata.Byline = <<>> THEN m.r.articleByline
                             ELSE m.l.metadata.Byline,
             Node        |-> IF ~found THEN <<ZeroNode>>
                             ELSE IF fc = NoPath THEN <<>>
                             ELSE <<NodeAt(articleContent, fc)>>,
             Content     |-> IF found THEN innerHTML(articleContent) ELSE <<>>,
             TextContent |-> finalTextContent,
             Length      |-> StrLen(finalTextContent),
             Excerpt     |-> excerpt,
             SiteName    |-> m.l.metadata.SiteName,
             Image       |-> m.l.metadata.Image,
             Favicon     |-> m.l.metadata.Favicon]]>>]

\* ---------------------------------------------------------------- documents
\* An input is the tree html.Parse builds from it: html, head and body are
\* always there, unless the document is a frameset.

\* the string with the characters cs
Lit(cs) ==
    LET starts == {i \in 1..Len(cs) : i = 1 \/ cs[i] # cs[i - 1]}
        End(i) == Least({j \in starts \cup {Len(cs) + 1} : j > i})
    IN  SelectSeq([k \in 1..Len(cs) |->
                      [c |-> cs[k], n |-> IF k \in starts THEN End(k) - k ELSE 0]],
                  LAMBDA r : r.n > 0)

\* a text node of n letters, then the characters cs
Text(n, cs) == createTextNode(Cat(Str("x", n), Lit(cs)))

Page(head, body) ==
    DocNode(<<Elem("html", <<>>, <<Elem("head", <<>>, head), Elem("body", <<>>, body)>>)>>)

Title(s) == Elem("title", <<>>, <<createTextNode(s)>>)

HelloWorld == Lit(<<"h", "e", "l", "l", "o", " ", "w", "o", "r", "l", "d">>)

LoremIpsum == Lit(<<"l", "o", "r", "e", "m", " ", "i", "p", "s", "u", "m">>)

\* the document of TestRemoveScripts: the white space between the tags is
\* kept as text nodes, the white space after </body> ends up in the body
DocLorem ==
    Page(<<createTextNode(Str(" ", 4)), Title(HelloWorld), createTextNode(Str(" ", 3))>>,
         <<createTextNode(Str(" ", 4)),
           Elem("script", <<A("src", "/js/scripts.min.js"), A("type", "text/javascript")>>, <<>>),
           createTextNode(Str(" ", 4)),
           Elem("p", <<>>, <<createTextNode(LoremIpsum)>>),
           createTextNode(Str(" ", 4)),
           Elem("script", <<A("type", "text/javascript"), A("src", "/js/scripts.min.js")>>, <<>>),
           createTextNode(Str(" ", 4)),
           Elem("script", <<A("type", "text/javascript")>>, <<Text(3, <<>>)>>),
           createTextNode(Str(" ", 6))>>)

\* a byline and one paragraph of 30 characters
DocByline ==
    Page(<<Title(HelloWorld)>>,
         <<Elem("div", <<A("class", "byline")>>, <<createTextNode(Lit(<<"B", "o", "b">>))>>),
           Elem("p", <<>>, <<Text(29, <<".">>)>>)>>)

\* an article with metadata, a sidebar, a share box, links and an image
DocArticle ==
    Page(<<Title(HelloWorld),
           Elem("meta", <<A("name", "author"), AS("content", Lit(<<"A", "n", "n">>))>>, <<>>),
           Elem("meta", <<A("property", "og:image"), A("content", "/icon.png")>>, <<>>),
           Elem("link", <<A("rel", "icon"), A("type", "image/png"),
                          A("href", "/icon.png"), A("sizes", "32x32")>>, <<>>)>>,
         <<Elem("div", <<A("class", "content"), A("style", "color:red")>>,
             <<Elem("h2", <<>>, <<Text(7, <<>>)>>),
               Elem("p", <<A("class", "lead")>>, <<Text(20, <<",", " ">>), Text(20, <<".">>)>>),
               Elem("p", <<>>,
                 <<Text(30, <<" ">>),
                   Elem("a", <<A("href", "/x")>>, <<Text(4, <<>>)>>),
                   Elem("a", <<A("href", "javascript:void(0)")>>, <<Text(2, <<>>)>>),
                   Elem("a", <<A("href", "#top")>>, <<Text(1, <<>>)>>),
                   Elem("a", <<A("href", "mailto:ann@example.com")>>, <<Text(1, <<>>)>>),
                   Elem("img", <<A("src", "/icon.png")>>, <<>>)>>)>>),
           Elem("div", <<A("class", "sidebar")>>, <<Elem("p", <<>>, <<Text(30, <<>>)>>)>>),
           Elem("noscript", <<>>, <<Text(5, <<>>)>>)>>)

\* the long paragraph sits in an unlikely candidate
DocGated ==
    Page(<<Title(HelloWorld)>>,
         <<Elem("div", <<A("id", "sidebar")>>,
             <<Elem("p", <<>>, <<Text(30, <<",", " ">>), Text(28, <<"U+00E9", ".">>)>>)>>),
           Elem("p", <<>>, <<Text(10, <<>>)>>)>>)

\* a table and attributes with the names the engine uses for its marks
DocTable ==
    Page(<<Title(HelloWorld)>>,
         <<Elem("table", <<A(TableKey, "true"), A("width", "9")>>,
             <<Elem("tbody", <<>>, <<Elem("tr", <<>>,
                 <<Elem("td", <<>>, <<Elem("p", <<>>, <<Text(30, <<".">>)>>)>>)>>)>>)>>),
           Elem("p", <<SetAttr(createElement("p"), ScoreKey, "num", 7 * Unit).attr[1]>>,
                <<Text(40, <<".">>)>>),
           Elem("br", <<>>, <<>>),
           Elem("font", <<>>, <<Text(5, <<>>)>>)>>)

\* an empty body, with metadata
DocEmpty ==
    Page(<<Title(HelloWorld),
           Elem("meta", <<A("name", "description"), AS("content", LoremIpsum)>>, <<>>),
           Elem("meta", <<A("property", "og:site_name"), AS("content", HelloWorld)>>, <<>>)>>,
         <<>>)

\* a frameset document: html.Parse builds no body
DocFrameset ==
    DocNode(<<Elem("html", <<>>,
        <<Elem("head", <<>>, <<Title(HelloWorld)>>),
          Elem("frameset", <<>>, <<Elem("frame", <<A("src", "/x")>>, <<>>)>>)>>)>>)

\* a paragraph that holds an image and no text
DocImage ==
    Page(<<Title(HelloWorld)>>,
         <<Elem("p", <<>>, <<Elem("img", <<A("src", "/icon.png")>>, <<>>)>>)>>)

\* the example of the comment of replaceBrs:
\* <div>foo<br>bar<br> <br><br>abc</div>
DocBrs ==
    Page(<<Title(HelloWorld)>>,
         <<Elem("div", <<>>,
             <<createTextNode(Lit(<<"f", "o", "o">>)), Elem("br", <<>>, <<>>),
               createTextNode(Lit(<<"b", "a", "r">>)), Elem("br", <<>>, <<>>),
               createTextNode(Str(" ", 1)), Elem("br", <<>>, <<>>), Elem("br", <<>>, <<>>),
               createTextNode(Lit(<<"a", "b", "c">>))>>)>>)

\* a paragraph and a plain table of ten rows of one cell
DocRows ==
    Page(<<Title(HelloWorld)>>,
         <<Elem("div", <<>>,
             <<Elem("p", <<>>, <<Text(30, <<",", " ">>), Text(30, <<".">>)>>),
               Elem("table", <<>>,
                 <<Elem("tbody", <<>>,
                     [i \in 1..10 |->
                        Elem("tr", <<>>, <<Elem("td", <<>>, <<Text(3, <<>>)>>)>>)])>>)>>)>>)

\* two paragraphs and elements that cleanConditionally tests: a form with a
\* video, a form with an input, a short form in a figure, a form with a
\* negative class, a list of links, a fieldset of links and a form with an
\* embed that is no video
DocForms ==
    Page(<<Title(HelloWorld)>>,
         <<Elem("div", <<>>,
             <<Elem("p", <<>>, <<Text(30, <<",", " ">>), Text(30, <<".">>)>>),
               Elem("p", <<>>, <<Text(40, <<",", " ">>), Text(20, <<".">>)>>),
               Elem("form", <<>>,
                 <<Elem("iframe", <<A("src", "//www.youtube.com/embed/1")>>, <<>>)>>),
               Elem("form", <<>>, <<Elem("input", <<>>, <<>>), Text(30, <<>>)>>),
               Elem("figure", <<>>, <<Elem("form", <<>>, <<Text(5, <<>>)>>)>>),
               Elem("form", <<A("class", "hidden")>>, <<Text(30, <<>>)>>),
               Elem("ul", <<>>,
                 <<Elem("li", <<>>, <<Elem("a", <<A("href", "/x")>>, <<Text(30, <<>>)>>)>>)>>),
               Elem("fieldset", <<>>,
                 <<Text(30, <<>>), Elem("a", <<A("href", "/x")>>, <<Text(20, <<>>)>>)>>),
               Elem("form", <<>>,
                 <<Text(30, <<>>), Elem("iframe", <<A("src", "/x")>>, <<>>)>>)>>)>>)

\* two paragraphs, a data table that holds a form with an input, and a
\* data table in a div with a negative class
DocData ==
    Page(<<Title(HelloWorld)>>,
         <<Elem("div", <<>>,
             <<Elem("p", <<>>, <<Text(30, <<",", " ">>), Text(30, <<".">>)>>),
               Elem("p", <<>>, <<Text(40, <<",", " ">>), Text(20, <<".">>)>>),
               Elem("table", <<A("summary", "s")>>,
                 <<Elem("tbody", <<>>, <<Elem("tr", <<>>,
                     <<Elem("td", <<>>,
                         <<Elem("form", <<>>, <<Elem("input", <<>>, <<>>)>>)>>),
                       Elem("td", <<>>, <<Text(4, <<>>)>>)>>)>>)>>),
               Elem("div", <<A("class", "hidden")>>,
                 <<Elem("p", <<>>, <<Text(30, <<".">>)>>),
                   Elem("table", <<A("summary", "s")>>,
                     <<Elem("tbody", <<>>, <<Elem("tr", <<>>,
                         <<Elem("td", <<>>, <<Text(4, <<>>)>>),
                           Elem("td", <<>>, <<Text(4, <<>>)>>)>>)>>)>>)>>)>>)>>)

\* a link around a table whose cell holds a link of 40 characters (the cell
\* lets the parser open a link inside a link), and a paragraph of 32
DocAnchors ==
    Page(<<Title(HelloWorld)>>,
         <<Elem("div", <<>>,
             <<Elem("a", <<A("href", "/x")>>,
                 <<Elem("table", <<>>,
                     <<Elem("tbody", <<>>,
                         <<Elem("tr", <<>>,
                             <<Elem("td", <<>>,
                                 <<Elem("a", <<A("href", "/x")>>,
                                     <<Text(40, <<>>)>>)>>)>>)>>)>>)>>),
               Elem("p", <<>>, <<Text(30, <<",", ".">>)>>)>>)>>)

\* a div of three paragraphs and its siblings: a form with its class and a
\* form without, paragraphs of 81, 80, 21 and 20 characters, a paragraph
\* that is one third link, a div of two paragraphs, and a text
DocSiblings ==
    Page(<<Title(HelloWorld)>>,
         <<Elem("div", <<A("class", "c")>>,
             [i \in 1..3 |->
                Elem("p", <<>>, <<Text(30, <<",", ",", ",", ",", ",", ",", ",", ",", ",", ".">>)>>)]),
           Elem("form", <<A("class", "c")>>,
             <<Elem("p", <<>>, <<Text(30, <<",", ",", ",", ",", ",", ",", ",", ",", ".">>)>>)>>),
           Elem("form", <<>>,
             <<Elem("p", <<>>, <<Text(30, <<",", ",", ",", ",", ",", ",", ",", ",", ".">>)>>)>>),
           Elem("p", <<>>, <<Text(81, <<>>)>>),
           Elem("p", <<>>, <<Text(80, <<>>)>>),
           Elem("p", <<>>, <<Text(20, <<".">>)>>),
           Elem("p", <<>>, <<Text(20, <<>>)>>),
           Elem("p", <<>>, <<Text(60, <<>>), Elem("a", <<A("href", "/x")>>, <<Text(30, <<>>)>>)>>),
           Elem("div", <<>>,
             [i \in 1..2 |-> Elem("p", <<>>, <<Text(30, <<",", ",", ",", ",", ".">>)>>)]),
           Text(5, <<>>)>>)

\* elements that look like bylines: one of 100 characters, a hidden one,
\* then Ann, Bea and Bob, before a paragraph of 30 characters
DocAuthors ==
    Page(<<Title(HelloWorld)>>,
         <<Elem("p", <<A("class", "author")>>, <<Text(100, <<>>)>>),
           Elem("p", <<A("rel", "author"), A("hidden", "")>>,
                <<createTextNode(Lit(<<"Z", "o", "e">>))>>),
           Elem("p", <<A("itemprop", "author name")>>,
                <<createTextNode(Lit(<<" ", "A", "n", "n", " ">>))>>),
           Elem("p", <<A("rel", "author")>>, <<createTextNode(Lit(<<"B", "e", "a">>))>>),
           Elem("p", <<A("id", "byline")>>, <<createTextNode(Lit(<<"B", "o", "b">>))>>),
           Elem("p", <<>>, <<Text(29, <<".">>)>>)>>)

\* a table cell with two unlikely candidates: the table is the fourth
\* ancestor of the first and the fifth of the second
DocNested ==
    Page(<<Title(HelloWorld)>>,
         <<Elem("table", <<>>,
             <<Elem("tbody", <<>>, <<Elem("tr", <<>>, <<Elem("td", <<>>,
                 <<Elem("div", <<A("class", "sidebar")>>, <<Text(30, <<".">>)>>),
                   Elem("div", <<>>,
                        <<Elem("div", <<A("class", "sidebar")>>,
                               <<Text(31, <<".">>)>>)>>)>>)>>)>>)>>),
           Elem("p", <<>>, <<Text(29, <<".">>)>>)>>)

\* a font element with text in a div, and a paragraph
DocFont ==
    Page(<<Title(HelloWorld)>>,
         <<Elem("div", <<>>, <<Elem("font", <<A("size", "2")>>, <<Text(40, <<".">>)>>)>>),
           Elem("p", <<>>, <<Text(20, <<>>)>>)>>)

\* a div with a header, a form and a paragraph whose class or id weighs
\* against them, two paragraphs and a form with an input
DocFlags ==
    Page(<<Title(HelloWorld)>>,
         <<Elem("div", <<>>,
             <<Elem("h2", <<A("class", "footer")>>, <<Text(10, <<>>)>>),
               Elem("p", <<>>, <<Text(40, <<",", ".">>)>>),
               Elem("p", <<>>, <<Text(40, <<".">>)>>),
               Elem("form", <<A("class", "hidden")>>, <<Text(30, <<>>)>>),
               Elem("p", <<A("id", "sidebar")>>, <<Text(30, <<".">>)>>),
               Elem("form", <<>>, <<Elem("input", <<>>, <<>>), Text(30, <<>>)>>)>>)>>)

\* a div of two paragraphs and a section that carries a score attribute in
\* the input
DocScored ==
    Page(<<Title(HelloWorld)>>,
         <<Elem("div", <<>>,
             <<Elem("p", <<>>, <<Text(40, <<",", ".">>)>>),
               Elem("p", <<>>, <<Text(40, <<".">>)>>)>>),
           Elem("section", <<SetAttr(createElement("section"), ScoreKey, "num", 50 * Unit).attr[1]>>,
                <<Text(20, <<>>)>>)>>)

\* the same document without the score attribute
DocUnscored ==
    Page(<<Title(HelloWorld)>>,
         <<Elem("div", <<>>,
             <<Elem("p", <<>>, <<Text(40, <<",", ".">>)>>),
               Elem("p", <<>>, <<Text(40, <<".">>)>>)>>),
           Elem("section", <<>>, <<Text(20, <<>>)>>)>>)

\* one paragraph of 25 characters
DocPlain == Page(<<>>, <<Elem("p", <<>>, <<Text(24, <<".">>)>>)>>)

Docs ==
    <<DocLorem, DocByline, DocArticle, DocGated, DocEmpty, DocFrameset, DocTable,
      DocImage, DocBrs, DocRows, DocForms, DocData, DocAnchors, DocSiblings, DocAuthors, DocNested, DocFont, DocFlags, DocScored, DocUnscored,
      DocPlain>>

\* ------------------------------------------------------------ state machine

\* "Parse input": r.doc becomes the tree of the input
ParseStep(m) == [m EXCEPT !.r.doc = Docs[m.l.input], !.l.pc = "max"]

\* "Remove script tags from the document"
ScriptsStep(m) == [m EXCEPT !.r.doc = removeScripts(m.r.doc), !.l.pc = "prepdoc"]

\* "Prepares the HTML document"
PrepDocStep(m) == [m EXCEPT !.r.doc = prepDocument(m.r.doc), !.l.pc = "meta"]

\* the step of Parse at l.pc
Step(m) ==
    CASE m.l.pc = "reset"   -> ResetStep(m)
      [] m.l.pc = "parse"   -> ParseStep(m)
      [] m.l.pc = "max"     -> MaxElemsStep(m)
      [] m.l.pc = "scripts" -> ScriptsStep(m)
      [] m.l.pc = "prepdoc" -> PrepDocStep(m)
      [] m.l.pc = "meta"    -> MetadataStep(m)
      [] m.l.pc = "grab"    -> GrabStep(m)
      [] m.l.pc = "prep"    -> PrepStep(m)
      [] m.l.pc = "score"   -> ScoreStep(m)
      [] m.l.pc = "scale"   -> ScaleStep(m)
      [] m.l.pc = "top"     -> TopStep(m)
      [] m.l.pc = "article" -> PrepArticleStep(m)
      [] m.l.pc = "check"   -> CheckStep(m)
      [] m.l.pc = "post"    -> FinishStep(m)

\* more steps than any Parse of the model takes
MaxSteps == 512

\* m after the steps of its Parse, alone on its instance, up to the first of
\* the positions stop (at most n steps)
RECURSIVE Run(_, _, _)
Run(m, n, stop) ==
    IF m.l.pc \in stop THEN m
    ELSE IF n = 1 THEN Step(m)
    ELSE LET half == Run(m, n \div 2, stop)
         IN  IF half.l.pc \in stop THEN half ELSE Run(half, n - n \div 2, stop)

\* New(), with the options the caller sets; r.doc and r.documentURI are nil
New(o) ==
    [doc |-> DocNode(<<>>), documentURI |-> "", articleTitle |-> <<>>,
     articleByline |-> <<>>, attempts |-> <<>>,
     flags |-> [stripUnlikelys |-> FALSE, useWeightClasses |-> FALSE,
                cleanConditionally |-> FALSE],
     MaxElemsToParse |-> o.MaxElemsToParse, NTopCandidates |-> 5,
     CharThresholds |-> o.CharThresholds, ClassesToPreserve |-> {"page"}]

\* the local variables of Parse(Docs[d], u) on entry
Locals(inst, left, inputs, d, u) ==
    [pc |-> IF d = 0 THEN "idle" ELSE "reset", inst |-> inst, left |-> left,
     inputs |-> inputs, input |-> d, pageURL |-> u,
     doc |-> DocNode(<<>>), page |-> NoPath, pageNode |-> <<>>, node |-> NoPath,
     q |-> <<>>, i |-> 1, cands |-> <<>>, needed |-> FALSE, article |-> <<>>,
     k |-> 1, content |-> <<>>,
     metadata |-> [Title |-> <<>>, Byline |-> <<>>, Excerpt |-> <<>>,
                   SiteName |-> <<>>, Image |-> "", Favicon |-> ""],
     result |-> <<>>]

\* what Parse(Docs[d], u) returns on a new instance with the options of r
Fresh(r, d, u) ==
    Run([r |-> New(r), l |-> Locals(0, 0, {}, d, u)], MaxSteps, {"done"}).l.result

\* ------------------------------------------------------------------ bounds

\* the documents Docs[1..NumDocs] are passed to Parse
NumDocs == 20

\* the number of Parse calls made one after the other on one instance
MaxParses == 2

\* CharThresholds as New() sets it, a value the short documents reach, and
\* (in Options) the value 0, which every attempt reaches
DefaultCharThresholds == 500

LowCharThresholds == 25

\* a MaxElemsToParse that some documents exceed
ElemsLimit == 6

Options ==
    {[CharThresholds |-> DefaultCharThresholds, MaxElemsToParse |-> 0],
     [CharThresholds |-> LowCharThresholds, MaxElemsToParse |-> 0],
     [CharThresholds |-> 0, MaxElemsToParse |-> 0],
     [CharThresholds |-> LowCharThresholds, MaxElemsToParse |-> ElemsLimit]}

\* the page URLs: one that url.ParseRequestURI accepts, one that it rejects
URLs == {"http://example.com/a", "example"}

Procs == {1, 2}

InstIds == {1, 2}

\* -------------------------------------------------------------------- state
\* inst[i] is the Readability value i; call[p] holds the local variables of
\* the Parse that caller p runs (pc "idle": none), the instance it calls
\* Parse on, the arguments it may pass and the number of calls it will make.

VARIABLES inst, call

vars == <<inst, call>>

\* the variant in which every caller holds the same instance
SelfShared(p) == 1

\* the receiver r of the Parse of p
Self(p) == call[p].inst

M(p) == [r |-> inst[Self(p)], l |-> call[p]]

\* the Parse of p has taken a step to m2
Do(p, m2) ==
    /\ inst' = [inst EXCEPT ![Self(p)] = m2.r]
    /\ call' = [call EXCEPT ![p] = m2.l]

\* p calls Parse(Docs[d], u)
Call(p) ==
    /\ call[p].pc = "idle"
    /\ call[p].left > 0
    /\ \E a \in call[p].inputs :
          call' = [call EXCEPT ![p] =
                      Locals(call[p].inst, call[p].left, call[p].inputs, a[1], a[2])]
    /\ UNCHANGED inst

Reset(p) ==
    /\ call[p].pc = "reset"
    /\ Do(p, ResetStep(M(p)))

ParseInput(p) ==
    /\ call[p].pc = "parse"
    /\ Do(p, ParseStep(M(p)))

CheckMaxElems(p) ==
    /\ call[p].pc = "max"
    /\ Do(p, MaxElemsStep(M(p)))

RemoveScripts(p) ==
    /\ call[p].pc = "scripts"
    /\ Do(p, ScriptsStep(M(p)))

PrepDocument(p) ==
    /\ call[p].pc = "prepdoc"
    /\ Do(p, PrepDocStep(M(p)))

Metadata(p) ==
    /\ call[p].pc = "meta"
    /\ Do(p, MetadataStep(M(p)))

GrabStart(p) ==
    /\ call[p].pc = "grab"
    /\ Do(p, GrabStep(M(p)))

PrepNode(p) ==
    /\ call[p].pc = "prep"
    /\ Do(p, PrepStep(M(p)))

ScoreNode(p) ==
    /\ call[p].pc = "score"
    /\ Do(p, ScoreStep(M(p)))

Scale(p) ==
    /\ call[p].pc = "scale"
    /\ Do(p, ScaleStep(M(p)))

Top(p) ==
    /\ call[p].pc = "top"
    /\ Do(p, TopStep(M(p)))

PrepArticle(p) ==
    /\ call[p].pc = "article"
    /\ Do(p, PrepArticleStep(M(p)))

CheckLength(p) ==
    /\ call[p].pc = "check"
    /\ Do(p, CheckStep(M(p)))

PostProcess(p) ==
    /\ call[p].pc = "post"
    /\ Do(p, FinishStep(M(p)))

\* Parse returns l.result to p
Return(p) ==
    /\ call[p].pc = "done"
    /\ call' = [call EXCEPT ![p].pc = "idle", ![p].left = call[p].left - 1]
    /\ UNCHANGED inst

Next ==
    \E p \in Procs :
        \/ Call(p) \/ Reset(p) \/ ParseInput(p) \/ CheckMaxElems(p)
        \/ RemoveScripts(p) \/ PrepDocument(p) \/ Metadata(p) \/ GrabStart(p)
        \/ PrepNode(p) \/ ScoreNode(p) \/ Scale(p) \/ Top(p) \/ PrepArticle(p)
        \/ CheckLength(p) \/ PostProcess(p) \/ Return(p)

\* one caller: MaxParses calls of Parse, one after the other, on one instance
Init ==
    \E o \in Options :
        /\ inst = [i \in InstIds |-> New(o)]
        /\ call = [p \in Procs |->
                      Locals(1, IF p = 1 THEN MaxParses ELSE 0,
                             (1..NumDocs) \X URLs, 0, "")]

Spec == Init /\ [][Next]_vars

\* two callers, one call each, on one instance or on two
InitPar ==
    \E j \in InstIds :
        /\ inst = [i \in InstIds |->
                      New([CharThresholds |-> LowCharThresholds, MaxElemsToParse |-> 0])]
        /\ call = [p \in Procs |->
                      Locals(IF p = 1 THEN 1 ELSE j, 1,
                             {<<IF p = 1 THEN 2 ELSE 5, "http://example.com/a">>}, 0, "")]

SpecPar == InitPar /\ [][Next]_vars

\* some caller is inside Parse or has a call left to make: the states in which
\* a step of Next is possible (every action asks for a pc other than "idle" or
\* for left > 0, every pc has its action, and every action changes call)
Busy == \E p \in Procs : call[p].pc # "idle" \/ call[p].left > 0

\* the same, with weak fairness: a goroutine that runs Parse is not suspended
\* for ever, and a Parse that stands at its return returns.  The first is
\* WF_vars(Next) written out, with Busy in the place of ENABLED <<Next>>_vars.
SpecFair ==
    /\ Init /\ [][Next]_vars
    /\ []<>~Busy \/ []<><<Next>>_vars
    /\ \A p \in Procs : WF_vars(Return(p))

\* ---------------------------------------------------------------- properties

\* the instance of p's Parse and its local variables
R(p) == inst[Self(p)]

L(p) == call[p]

\* the positions inside the loop of grabArticle
LoopPcs == {"grab", "prep", "score", "scale", "top", "article", "check"}

FlagTuple(f) == <<f.stripUnlikelys, f.useWeightClasses, f.cleanConditionally>>

FlagConfigs ==
    << <<TRUE, TRUE, TRUE>>, <<FALSE, TRUE, TRUE>>, <<FALSE, FALSE, TRUE>>,
       <<FALSE, FALSE, FALSE>> >>

\* the attempt of p that stands at the length check is too short
Short(p) ==
    TextLength(WrapPage(L(p).article[1], L(p).needed)) < R(p).CharThresholds

\* C1: within one Parse the flags start all true (the reset sets them); an
\* attempt always runs under one of (T,T,T), (F,T,T), (F,F,T), (F,F,F); the
\* flags change only at the length check of a too short attempt, which moves
\* them to the next configuration of that order (it clears exactly one flag),
\* and a cleared flag is not set again before Parse returns.
C1_FlagOrder ==
    /\ [](\A p \in Procs : L(p).pc \in LoopPcs =>
              \E k \in 1..4 : FlagTuple(R(p).flags) = FlagConfigs[k])
    /\ [][\A p \in Procs :
            /\ L(p).pc = "reset" /\ L(p)'.pc = "parse" =>
                   FlagTuple(R(p).flags') = FlagConfigs[1]
            /\ L(p).pc \notin {"idle", "reset"} /\ R(p).flags' # R(p).flags =>
                   /\ L(p).pc = "check" /\ Short(p)
                   /\ \E k \in 1..3 : /\ FlagTuple(R(p).flags) = FlagConfigs[k]
                                      /\ FlagTuple(R(p).flags') = FlagConfigs[k + 1]
            /\ L(p).pc = "check" /\ Short(p) /\ L(p)'.pc = "grab" =>
                   R(p).flags' # R(p).flags]_vars

\* a fourth attempt runs with all three flags cleared
C1_Witness ==
    \E p \in Procs : L(p).pc = "prep" /\ FlagTuple(R(p).flags) = FlagConfigs[4]

\* the number of flags that are cleared
Cleared(f) == Cardinality({i \in 1..3 : ~FlagTuple(f)[i]})

\* C2: grabArticle terminates; it makes at most four attempts: inside the
\* loop the attempts list holds one entry per failed attempt so far, which is
\* the number of cleared flags, so at most three when an attempt starts; the
\* length check appends exactly one entry when the attempt is too short and
\* none otherwise, no other step of the loop changes the list, and the list
\* never holds more than four entries.
C2_Attempts ==
    /\ [](\A p \in Procs :
            /\ Len(R(p).attempts) <= 4
            /\ L(p).pc \in LoopPcs => /\ Len(R(p).attempts) = Cleared(R(p).flags)
                                      /\ Len(R(p).attempts) <= 3)
    /\ [][\A p \in Procs :
            /\ L(p).pc = "check" =>
                  Len(R(p).attempts') = Len(R(p).attempts) + (IF Short(p) THEN 1 ELSE 0)
            /\ L(p).pc \in LoopPcs \ {"check"} => R(p).attempts' = R(p).attempts]_vars
    /\ \A p \in Procs : (L(p).pc \in LoopPcs) ~> (L(p).pc = "post")

\* grabArticle returns after four failed attempts
C2_Witness ==
    \E p \in Procs : L(p).pc = "post" /\ Len(R(p).attempts) = 4

\* the greatest recorded text length
MaxLength(attempts) ==
    CHOOSE x \in {attempts[i].textLength : i \in 1..Len(attempts)} :
        \A i \in 1..Len(attempts) : attempts[i].textLength <= x

\* C3: when grabArticle returns for a document with a body, every recorded
\* attempt was shorter than CharThresholds; if the attempt made last reaches
\* CharThresholds, its content is returned (it is the first to reach it);
\* otherwise four attempts are recorded and the content of one with the
\* greatest recorded length is returned, or nil when that length is zero.
C3_Returned ==
    \A p \in Procs :
        L(p).pc = "post" /\ getElementsByTagName(R(p).doc, "body") # <<>> =>
            LET att == R(p).attempts
                art == WrapPage(L(p).article[1], L(p).needed)
            IN  /\ \A i \in 1..Len(att) :
                      /\ att[i].textLength < R(p).CharThresholds
                      /\ att[i].textLength = TextLength(att[i].articleContent)
                /\ IF TextLength(art) >= R(p).CharThresholds
                   THEN L(p).content = <<art>> /\ Len(att) <= 3
                   ELSE /\ Len(att) = 4
                        /\ IF MaxLength(att) = 0 THEN L(p).content = <<>>
                           ELSE \E i \in 1..4 :
                                   /\ att[i].textLength = MaxLength(att)
                                   /\ L(p).content = <<att[i].articleContent>>

\* the fallback returns an attempt although another one recorded no text
C3_Witness ==
    \E p \in Procs :
        /\ L(p).pc = "post"
        /\ Len(R(p).attempts) = 4
        /\ L(p).content # <<>>
        /\ \E i \in 1..4 : R(p).attempts[i].textLength = 0

\* the result of the Parse of p that stands at its return
Result(p) == L(p).result[1]

\* the number of elements of the tree html.Parse built for the Parse of p
NumElems(p) == Len(getElementsByTagName(Docs[L(p).input], "*"))

\* C4: a Parse whose page URL and input were parsed returns, when
\* MaxElemsToParse > 0 and the parsed tree has N > MaxElemsToParse elements
\* (scripts and noscripts counted), the zero Article and the error "too many
\* elements: N"; in every other case, MaxElemsToParse = 0 among them, it
\* returns a nil error.
C4_MaxElems ==
    \A p \in Procs :
        L(p).pc = "done" /\ L(p).pageURL \in ValidURLs =>
            IF R(p).MaxElemsToParse > 0 /\ NumElems(p) > R(p).MaxElemsToParse
            THEN /\ Result(p).err = Error("too many elements", NumElems(p))
                 /\ Result(p).article = ZeroArticle
            ELSE Result(p).err = NoError

\* a document is rejected that has no more than MaxElemsToParse elements
\* once its scripts are gone
C4_Witness ==
    \E p \in Procs :
        /\ L(p).pc = "done"
        /\ Result(p).err = Error("too many elements", NumElems(p))
        /\ Len(getElementsByTagName(removeScripts(Docs[L(p).input]), "*"))
              <= R(p).MaxElemsToParse

\* an element of the tree n carries one of the two readability attributes
Marked(n) ==
    LET all == getElementsByTagName(n, "*")
    IN  \E i \in 1..Len(all) :
            \/ hasAttribute(NodeAt(n, all[i]), ScoreKey)
            \/ hasAttribute(NodeAt(n, all[i]), TableKey)

\* a tag of the rendering x carries one of the two readability attributes
MarkedTokens(x) ==
    \E i \in 1..Len(x) : \E j \in 1..Len(x[i].attr) :
        x[i].attr[j].k \in {ScoreKey, TableKey}

\* C5: when Parse returns, no element of Article.Node and no tag of
\* Article.Content carries data-readability-score or data-readability-table,
\* whether grabArticle returned a successful attempt or the longest one
\* (the attribute keys of an input element are distinct).
C5_NoMarks ==
    \A p \in Procs :
        L(p).pc = "done" =>
            /\ \A i \in 1..Len(Result(p).article.Node) :
                  ~Marked(Result(p).article.Node[i])
            /\ ~MarkedTokens(Result(p).article.Content)

\* the longest attempt is returned, and it carried the attributes when
\* grabArticle returned it
C5_Witness ==
    \E p \in Procs :
        /\ L(p).pc = "done"
        /\ Len(R(p).attempts) = 4
        /\ L(p).content # <<>>
        /\ Marked(L(p).content[1])
        /\ Result(p).article.Content # <<>>

\* the tree n holds a script or a noscript element
Scripted(n) ==
    getElementsByTagName(n, "script") # <<>> \/ getElementsByTagName(n, "noscript") # <<>>

\* C6: from the removal of the scripts to the return of Parse, r.doc holds
\* no script and no noscript element, and neither does the clone an attempt
\* works on, the article it builds, the content grabArticle returns, nor
\* Article.Node and Article.Content.
C6_NoScripts ==
    \A p \in Procs :
        /\ L(p).pc \in {"prepdoc", "meta", "post"} \cup LoopPcs =>
              /\ ~Scripted(R(p).doc)
              /\ L(p).pc \in LoopPcs \ {"grab"} => ~Scripted(L(p).doc)
              /\ \A i \in 1..Len(L(p).article) : ~Scripted(L(p).article[i])
              /\ \A i \in 1..Len(L(p).content) : ~Scripted(L(p).content[i])
        /\ L(p).pc = "done" /\ Result(p).err = NoError =>
              /\ \A i \in 1..Len(Result(p).article.Node) :
                    ~Scripted(Result(p).article.Node[i])
              /\ \A i \in 1..Len(Result(p).article.Content) :
                    Result(p).article.Content[i].tag \notin {"script", "noscript"}

\* Parse returns content for an input that holds scripts
C6_Witness ==
    \E p \in Procs :
        /\ L(p).pc = "done"
        /\ Scripted(Docs[L(p).input])
        /\ Result(p).err = NoError
        /\ Result(p).article.Content # <<>>

\* the Parse of p returns after it ran grabArticle
Grabbed(p) == L(p).pc = "done" /\ Result(p).err = NoError

\* every attempt of the Parse of p produced an article without text: the
\* recorded ones and the one made last (none is made without a body)
ZeroLength(p) ==
    /\ \A i \in 1..Len(R(p).attempts) : R(p).attempts[i].textLength = 0
    /\ \A i \in 1..Len(L(p).article) :
          TextLength(WrapPage(L(p).article[i], L(p).needed)) = 0

\* the Article of p has no content, and its metadata fields are those of
\* the prepared document r.doc
EmptyWithMetadata(p) ==
    LET a  == Result(p).article
        md == getArticleMetadata(R(p))
    IN  /\ a.Content = <<>> /\ a.TextContent = <<>> /\ a.Length = 0
        /\ a.Title = md.Title
        /\ a.Byline = (IF md.Byline = <<>> THEN R(p).articleByline ELSE md.Byline)
        /\ a.Excerpt = md.Excerpt
        /\ a.SiteName = md.SiteName
        /\ a.Image = md.Image
        /\ a.Favicon = md.Favicon

\* C7, as stated: when every attempt yields zero-length text, Parse returns
\* a nil error and an Article with empty Content and TextContent, Length 0
\* and the metadata of the document.
C7_AsStated ==
    \A p \in Procs : Grabbed(p) /\ ZeroLength(p) => EmptyWithMetadata(p)

\* C7, amended: the same for CharThresholds > 0, where an attempt without
\* text is never accepted (with CharThresholds <= 0 the first attempt is
\* accepted whatever its length, and its elements are the Content).
C7_NotFound ==
    \A p \in Procs :
        Grabbed(p) /\ ZeroLength(p) /\ R(p).CharThresholds > 0 => EmptyWithMetadata(p)

\* four attempts without text on a document with an empty body: the Article
\* has no content, and the excerpt and the site name of the metadata
C7_Witness ==
    \E p \in Procs :
        /\ Grabbed(p) /\ ZeroLength(p)
        /\ Len(R(p).attempts) = 4
        /\ Result(p).article.Content = <<>>
        /\ Result(p).article.Excerpt = LoremIpsum
        /\ Result(p).article.SiteName = HelloWorld

\* the Parse of p with its attempt made first: nothing recorded, no byline
AttemptFirst(p) ==
    Run([r |-> [R(p) EXCEPT !.attempts = <<>>, !.articleByline = <<>>],
         l |-> [L(p) EXCEPT !.pc = "grab"]], MaxSteps, {"check", "post"})

\* C8: the article an attempt has built when it reaches the length check is
\* the article the same attempt builds from the same prepared document,
\* options and flags when it is the first one (nothing recorded before it).
C8_Independent ==
    \A p \in Procs : L(p).pc = "check" => L(p).article = AttemptFirst(p).l.article

\* C9: whatever Parse calls were made on the instance before, a Parse that
\* has parsed its page URL starts with articleTitle and articleByline empty,
\* no attempts and the three flags true, and every Parse returns the Article
\* and the error that a new instance with the same options returns for the
\* same input and page URL.
C9_Reset ==
    \A p \in Procs :
        /\ L(p).pc = "parse" =>
              /\ R(p).articleTitle = <<>> /\ R(p).articleByline = <<>>
              /\ R(p).attempts = <<>>
              /\ FlagTuple(R(p).flags) = FlagConfigs[1]
        /\ L(p).pc = "done" => L(p).result = Fresh(R(p), L(p).input, L(p).pageURL)

\* a Parse that is not the first on its instance returns an Article with a
\* byline
C9_Witness ==
    \E p \in Procs :
        /\ L(p).pc = "done"
        /\ L(p).left < MaxParses
        /\ Result(p).err = NoError
        /\ Result(p).article.Byline # <<>>

\* C10, as stated: of two Parse invocations on distinct inputs whose steps
\* interleave, on two instances or on the same one, each returns what it
\* returns when it runs alone.
C10_AsStated ==
    \A p \in Procs :
        L(p).pc = "done" => L(p).result = Fresh(R(p), L(p).input, L(p).pageURL)

\* C10, amended: the same for invocations on distinct instances (r.doc, the
\* flags, the attempts and the byline belong to the instance).
C10_DistinctInstances ==
    call[1].inst # call[2].inst =>
        \A p \in Procs :
            L(p).pc = "done" => L(p).result = Fresh(R(p), L(p).input, L(p).pageURL)

\* both invocations, on two instances, stand at their return
C10_Witness ==
    /\ call[1].inst # call[2].inst
    /\ \A p \in Procs : L(p).pc = "done" /\ Result(p).err = NoError
    /\ L(1).input # L(2).input

\* n is a div with id "readability-page-1" and class "page"
IsPageDiv(n) ==
    /\ n.type = "elem" /\ tagName(n) = "div"
    /\ getAttribute(n, "id") = "readability-page-1"
    /\ getAttribute(n, "class") = "page"

\* C11: when Parse returns a non-empty Content, Article.Node is the first
\* element child of the post-processed article container that grabArticle
\* returned, it is the page div (id "readability-page-1", class "page"), and
\* Content starts with its opening tag; for a created and for a selected top
\* candidate, for a successful attempt and for the longest one.
C11_PageDiv ==
    \A p \in Procs :
        Grabbed(p) /\ Result(p).article.Content # <<>> =>
            LET a   == Result(p).article
                art == postProcessContent(R(p), L(p).content[1])
                fc  == firstElementChild(art, <<>>)
            IN  /\ L(p).content # <<>>
                /\ fc # NoPath
                /\ a.Node = <<NodeAt(art, fc)>>
                /\ IsPageDiv(a.Node[1])
                /\ a.Content[1].t = "open" /\ a.Content[1].tag = "div"
                /\ a.Content[1].attr = a.Node[1].attr

\* the longest attempt is returned after four attempts, the last of which
\* selected its top candidate among the scored nodes
C11_Witness ==
    \E p \in Procs :
        /\ Grabbed(p) /\ Result(p).article.Content # <<>>
        /\ Len(R(p).attempts) = 4
        /\ ~L(p).needed
        /\ IsPageDiv(Result(p).article.Node[1])

\* the Parse of p ran on the document of TestRemoveScripts with a valid page
\* URL and the options New sets
LoremDefault(p) ==
    /\ L(p).pc = "done"
    /\ L(p).input = 1
    /\ L(p).pageURL \in ValidURLs
    /\ R(p).CharThresholds = DefaultCharThresholds
    /\ R(p).MaxElemsToParse = 0

RuneCount(s) == CountIn(s, 1, Len(s), {s[i].c : i \in 1..Len(s)})

\* C14 as stated: when Parse returns an article, TextContent is the text
\* content of the post-processed article container without its leading and
\* trailing white space, and Length is the number of characters of
\* TextContent, also when the text holds characters of more than one byte.
C14_AsStated ==
    \A p \in Procs :
        Grabbed(p) /\ L(p).content # <<>> =>
            LET a == Result(p).article
            IN  /\ a.TextContent
                     = TrimSpace(textContent(postProcessContent(R(p), L(p).content[1])))
                /\ a.Length = RuneCount(a.TextContent)

\* what prepDocument leaves of the input of the Parse of p
Prepared(p) == prepDocument(removeScripts(Docs[L(p).input]))

\* C15: grabArticle does not change r.doc: from its entry to its return
\* r.doc is the prepared document, whatever the number of attempts; no step
\* of the loop changes r.doc; and an attempt starts from a clone that is
\* equal to r.doc, whatever the attempt before it did to its own clone.
C15_DocKept ==
    /\ [](\A p \in Procs :
            L(p).pc \in LoopPcs \cup {"post"} => R(p).doc = Prepared(p))
    /\ [][\A p \in Procs :
            /\ L(p).pc \in LoopPcs => R(p).doc' = R(p).doc
            /\ L(p).pc = "grab" /\ L(p)'.pc # "post" => L(p)'.doc = R(p).doc]_vars

\* grabArticle returns after four attempts, the last of which has removed,
\* renamed or marked nodes of its clone
C15_Witness ==
    \E p \in Procs :
        /\ L(p).pc = "post"
        /\ Len(R(p).attempts) = 4
        /\ L(p).doc # R(p).doc
        /\ Marked(L(p).doc) /\ ~Marked(R(p).doc)

\* the values of the attribute key on the elements tag of the tree n
AttrValues(n, tag, key) ==
    LET list == getElementsByTagName(n, tag)
    IN  {getAttribute(NodeAt(n, list[i]), key) :
            i \in {j \in 1..Len(list) : hasAttribute(NodeAt(n, list[j]), key)}}

\* the URI words with a scheme and a host
IsAbsolute(u) ==
    u \in AbsoluteURIs \cup {Origin(b) \o x : b \in ValidURLs, x \in RelativeURIs}

\* the URI words toAbsoluteURI returns as they are although they have no
\* host: a fragment, and a URI with a scheme that is not javascript:
KeptURIs == {"#top", "mailto:ann@example.com"}

\* the article container of the Parse of p after postProcessContent, of which
\* Article.Content is the inner HTML
Container(p) == postProcessContent(R(p), L(p).content[1])

\* the attributes fixRelativeURIs rewrites
URIAttrs == {<<"a", "href">>, <<"img", "src">>}

Body(p) == NodeAt(R(p).doc, getElementsByTagName(R(p).doc, "body")[1])

\* C18 as stated, on the example: once prepDocument has run on
\* <div>foo<br>bar<br> <br><br>abc</div>, the single <br> after "foo" and
\* the text "bar" are in place and the run of <br> elements is one <p> that
\* holds "abc": <div>foo<br>bar<p>abc</p></div>.
C18_AsStated ==
    \A p \in Procs :
        L(p).pc = "meta" /\ Docs[L(p).input] = DocBrs =>
            Body(p).kids =
                <<Elem("div", <<>>,
                    <<createTextNode(Lit(<<"f", "o", "o">>)), Elem("br", <<>>, <<>>),
                      createTextNode(Lit(<<"b", "a", "r">>)),
                      Elem("p", <<>>, <<createTextNode(Lit(<<"a", "b", "c">>))>>)>>)>>

\* the tables of the article container of p, as nodes
Tables(p) ==
    LET art == L(p).article[1]
        list == getElementsByTagName(art, "table")
    IN  {NodeAt(art, list[i]) : i \in 1..Len(list)}

\* a table below the table t
Nested(t) == \E i \in 1..Len(t.kids) : getElementsByTagName(t.kids[i], "table") # <<>>

\* the condition of C19 for the table t
DataTableAsStated(t) ==
    LET Has(tag) == getElementsByTagName(t, tag) # <<>>
        caps == getElementsByTagName(t, "caption")
        rc == getRowAndColumnCount(t)
    IN  /\ getAttribute(t, "role") # "presentation"
        /\ getAttribute(t, "datatable") # "0"
        /\ \/ hasAttribute(t, "summary")
           \/ caps # <<>> /\ NodeAt(t, caps[1]).kids # <<>>
           \/ Has("col") \/ Has("colgroup") \/ Has("tfoot") \/ Has("thead") \/ Has("th")
           \/ /\ ~Nested(t)
              /\ rc.rows >= 10 \/ rc.columns > 4 \/ rc.rows * rc.columns > 10

\* C19 as stated: right after the call of markDataTables in prepArticle a
\* table of the article container is marked as a data table iff it meets
\* the condition of the claim; a plain table of ten rows is marked.
C19_AsStated ==
    \A p \in Procs :
        (L(p).pc = "article" /\ L(p).k > 1 /\ PrepStages[L(p).k - 1][1] = "markDataTables") =>
            \A t \in Tables(p) : isReadabilityDataTable(t) <=> DataTableAsStated(t)

\* the next call of prepArticle in the Parse of p is cleanConditionally, and
\* the cleanConditionally flag is set
CleanStage(p) ==
    /\ L(p).pc = "article"
    /\ PrepStages[L(p).k][1] = "cleanConditionally"
    /\ R(p).flags.cleanConditionally

\* the condition under which cleanConditionally(tag) removes the element at q
\* of the tree root: video is what is done with an embed that matches the
\* video pattern ("skip": it is not counted, "keep": the element is kept) and
\* depth is the number the search for a figure ancestor is bounded with (-1:
\* not bounded)
Removes(root, q, tag, flags, video, depth) ==
    LET n == NodeAt(root, q)
        N(t) == Len(getElementsByTagName(n, t))
        weight == getClassWeight(n, flags)
        li == N("li") - 100
        embeds == getElementsByTagName(n, "object") \o getElementsByTagName(n, "embed")
                    \o getElementsByTagName(n, "iframe")
        videos == {i \in 1..Len(embeds) : IsKeptEmbed(NodeAt(n, embeds[i]))}
        embedCount == Len(embeds) - Cardinality(videos)
        contentLength == TextLength(n)
        list == tag \in {"ul", "ol"}
        figure == hasAncestorTag(root, q, "figure", depth, NoFilter)
    IN  /\ ~(tag = "table" /\ isReadabilityDataTable(n))
        /\ ~hasAncestorTag(root, q, "table", -1, isReadabilityDataTable)
        /\ \/ weight < 0
           \/ /\ Count(getInnerText(n, TRUE), ",") < 10
              /\ video = "keep" => videos = {}
              /\ \/ N("img") > 1 /\ 2 * N("p") < N("img") /\ ~figure
                 \/ ~list /\ li > N("p")
                 \/ N("input") > N("p") \div 3
                 \/ ~list /\ contentLength < 25 /\ (N("img") = 0 \/ N("img") > 2) /\ ~figure
                 \/ ~list /\ weight < 25 /\ LinkDensityGreater(n, 1, 5)
                 \/ weight >= 25 /\ LinkDensityGreater(n, 1, 2)
                 \/ (embedCount = 1 /\ contentLength < 75) \/ embedCount > 1

\* the tree root once the elements tag for which Removes holds are removed,
\* the last one first
Cleaned(root, tag, flags, video, depth) ==
    LET Filter(t, q) == Removes(t, q, tag, flags, video, depth)
    IN  removeNodes(root, getElementsByTagName(root, tag), Filter)

\* C20 as stated: with the flag set, a call cleanConditionally(tag) of
\* prepArticle removes the elements of that tag that are neither a data
\* table nor inside one and have a negative class weight or fewer than 10
\* commas and one of the seven conditions, where embedCount counts the
\* object, embed and iframe descendants that do not match the video pattern.
C20_AsStated ==
    [][\A p \in Procs :
          CleanStage(p) =>
              L(p)'.article[1] =
                  Cleaned(L(p).article[1], PrepStages[L(p).k][2], R(p).flags, "skip", -1)]_vars

\* C20: as above, but an element with fewer than 10 commas that has an
\* object, embed or iframe descendant matching the video pattern is kept
\* whatever the seven conditions say (so embedCount, where it is used, is the
\* number of all object, embed and iframe descendants), and the figure
\* ancestor is searched among the nearest ancestors only (maxDepth 3).
C20_VideoKept ==
    [][\A p \in Procs :
          CleanStage(p) =>
              L(p)'.article[1] =
                  Cleaned(L(p).article[1], PrepStages[L(p).k][2], R(p).flags, "keep", 3)]_vars

\* cleanConditionally(form) has removed three of the five forms: the form
\* with the video and the short form in the figure are left
C20_Witness ==
    \E p \in Procs :
        /\ L(p).pc = "article" /\ L(p).k > 1
        /\ PrepStages[L(p).k - 1] = <<"cleanConditionally", "form">>
        /\ R(p).flags.cleanConditionally /\ R(p).flags.useWeightClasses
        /\ Len(getElementsByTagName(Docs[L(p).input], "form")) = 5
        /\ LET art == L(p).article[1]
               forms == getElementsByTagName(art, "form")
           IN  /\ Len(forms) = 2
               /\ getElementsByTagName(NodeAt(art, forms[1]), "iframe") # <<>>
               /\ tagName(NodeAt(art, Parent(forms[2]))) = "figure"

\* the tables of the tree t that are marked as data tables, in document order
DataTables(t) ==
    LET list == getElementsByTagName(t, "table")
        marked == SelectSeq(list, LAMBDA q : isReadabilityDataTable(NodeAt(t, q)))
    IN  [i \in 1..Len(marked) |-> NodeAt(t, marked[i])]

\* the filter of cleanConditionally(tag) does not look at the element at q:
\* it is a data table or it is inside one
Exempt(t, q, tag) ==
    \/ tag = "table" /\ isReadabilityDataTable(NodeAt(t, q))
    \/ hasAncestorTag(t, q, "table", -1, isReadabilityDataTable)

\* the data tables of t with no enclosing element of that tag that the
\* filter of cleanConditionally(tag) looks at (the root has no parent and is
\* not removed)
ProtectedTables(t, tag) ==
    LET list == getElementsByTagName(t, "table")
        Safe(q) ==
            /\ isReadabilityDataTable(NodeAt(t, q))
            /\ \A d \in 1..(Len(q) - 1) :
                  tagName(NodeAt(t, SubSeq(q, 1, d))) = tag => Exempt(t, SubSeq(q, 1, d), tag)
        safe == SelectSeq(list, Safe)
    IN  [i \in 1..Len(safe) |-> NodeAt(t, safe[i])]

\* C21 as stated: a cleanConditionally call of prepArticle removes no data
\* table and no node inside one, neither directly nor with an enclosing
\* element: the data tables of the article container are the same, with the
\* same contents, after the call.
C21_AsStated ==
    [][\A p \in Procs :
          CleanStage(p) =>
              DataTables(L(p)'.article[1]) = DataTables(L(p).article[1])]_vars

\* C21: a cleanConditionally call of prepArticle removes no data table and
\* no node inside one unless it removes an element of the cleaned tag that
\* encloses the table and is not itself inside a data table: the data tables
\* without such an enclosing element are the same, with the same contents,
\* after the call.
C21_Exempt ==
    [][\A p \in Procs :
          CleanStage(p) =>
              ProtectedTables(L(p)'.article[1], PrepStages[L(p).k][2])
                  = ProtectedTables(L(p).article[1], PrepStages[L(p).k][2])]_vars

\* cleanConditionally(form) has run: the form with an input, which the call
\* removes elsewhere, is left in its data table
C21_Witness ==
    \E p \in Procs :
        /\ L(p).pc = "article" /\ L(p).k > 1
        /\ PrepStages[L(p).k - 1] = <<"cleanConditionally", "form">>
        /\ R(p).flags.cleanConditionally
        /\ \E i \in 1..Len(DataTables(L(p).article[1])) :
              LET t == DataTables(L(p).article[1])[i]
                  forms == getElementsByTagName(t, "form")
              IN  /\ forms # <<>>
                  /\ getElementsByTagName(NodeAt(t, forms[1]), "input") # <<>>

\* the ancestor lv levels above the parent of the element at e (lv = 0: the
\* parent), and whether the scoring pass gives it a share: it is an element
\* whose own parent is an element
AncestorAt(e, lv) == SubSeq(e, 1, Len(e) - lv - 1)

TakesShare(doc, e, lv) ==
    /\ Len(e) >= lv + 2
    /\ NodeAt(doc, AncestorAt(e, lv)).type = "elem"
    /\ NodeAt(doc, Parent(AncestorAt(e, lv))).type = "elem"

\* the score an element has before a share is added to it: the one it was
\* given as a candidate, or else its tag bias plus its class weight
ScoreBefore(l, a, flags) ==
    IF \E j \in 1..Len(l.cands) : l.cands[j] = a
    THEN getContentScore(NodeAt(l.doc, a))
    ELSE (TagBias(NodeAt(l.doc, a).tag) + getClassWeight(NodeAt(l.doc, a), flags)) * Unit

\* C22: one step of the scoring pass, for the queued element e with inner
\* text of length len: when e has an element parent and len >= 25, with
\* base = 1 + commas + min(len \div 100, 3), the parent gets base / 1, the
\* grandparent base / 2 and the great-grandparent base / 6 (stored to four
\* decimals) on top of the score it had, or of its tag bias and class weight
\* when it is seen for the first time; an ancestor whose own parent is not
\* an element gets nothing; no other score changes; a shorter e changes no
\* score.
C22_Scored ==
    [][\A p \in Procs :
          (L(p).pc = "score" /\ L(p)'.i = L(p).i + 1) =>
              LET l         == L(p)
                  e         == l.q[l.i]
                  innerText == getInnerText(NodeAt(l.doc, e), TRUE)
                  len       == StrLen(innerText)
                  hundreds  == IF len \div 100 < 3 THEN len \div 100 ELSE 3
                  base      == 1 + Count(innerText, ",") + hundreds
                  scored    == /\ e # <<>>
                               /\ NodeAt(l.doc, Parent(e)).type = "elem"
                               /\ len >= 25
                  divider   == <<1, 2, 6>>
                  elems     == getElementsByTagName(l.doc, "*")
              IN  \A j \in 1..Len(elems) :
                     LET a == elems[j]
                     IN  getContentScore(NodeAt(L(p)'.doc, a)) =
                           IF scored /\ \E lv \in 0..2 :
                                           TakesShare(l.doc, e, lv) /\ a = AncestorAt(e, lv)
                           THEN LET lv == CHOOSE x \in 0..2 : a = AncestorAt(e, x)
                                IN  ScoreBefore(l, a, R(p).flags)
                                      + RoundDiv(base * Unit, divider[lv + 1])
                           ELSE getContentScore(NodeAt(l.doc, a))]_vars

\* the scoring pass is over: it has given a share to three ancestors of an
\* element, it has scored an element with a comma in its text, and it has
\* met an element with an element parent and fewer than 25 characters
C22_Witness ==
    \E p \in Procs :
        /\ L(p).pc = "scale"
        /\ LET l == L(p)
               TextLen(j) == StrLen(getInnerText(NodeAt(l.doc, l.q[j]), TRUE))
               HasParent(j) ==
                   l.q[j] # <<>> /\ NodeAt(l.doc, Parent(l.q[j])).type = "elem"
           IN  /\ \E j \in 1..Len(l.q) :
                     /\ TextLen(j) >= 25
                     /\ \A lv \in 0..2 : TakesShare(l.doc, l.q[j], lv)
                     /\ getContentScore(NodeAt(l.doc, AncestorAt(l.q[j], 2))) # 0
               /\ \E j \in 1..Len(l.q) :
                     /\ TextLen(j) >= 25 /\ HasParent(j)
                     /\ Count(getInnerText(NodeAt(l.doc, l.q[j]), TRUE), ",") > 0
               /\ \E j \in 1..Len(l.q) : TextLen(j) < 25 /\ HasParent(j)

\* C23 as stated: getLinkDensity is in [0, 1] for every element of the tree
\* an attempt of grabArticle works on: the link length is at most the text
\* length (and the density is 0 when there is no text).
C23_AsStated ==
    \A p \in Procs :
        L(p).pc \in {"score", "scale", "top"} =>
            LET elems == getElementsByTagName(L(p).doc, "*")
            IN  \A j \in 1..Len(elems) :
                   LET n == NodeAt(L(p).doc, elems[j])
                   IN  /\ LinkLength(n) >= 0
                       /\ TextLength(n) > 0 => LinkLength(n) <= TextLength(n)

\* the parent of the top candidate and the index of the top candidate in
\* it, at the point where grabArticle of p has chosen the top candidate
TopParent(p) ==
    LET l    == L(p)
        page == IF l.page # NoPath THEN NodeAt(l.doc, l.page) ELSE l.pageNode[1]
        sel  == SelectTop(l.doc, l.cands, R(p).flags, R(p).NTopCandidates)
    IN  IF \/ l.cands = <<>>
           \/ R(p).NTopCandidates = 0
           \/ tagName(NodeAt(l.doc, l.cands[1])) = "body"
        THEN [node |-> [page EXCEPT !.kids =
                           <<initializeNode(Elem("div", <<>>, page.kids), R(p).flags)>>],
              top |-> 1]
        ELSE [node |-> NodeAt(sel.doc, Parent(sel.top)), top |-> Last(sel.top)]

\* the four reasons for which a child of the top candidate's parent goes
\* into the article, with ten times the scores on both sides of the
\* comparison with the threshold max(10, topScore * 0.2)
IsTheTop(tp, i) == i = tp.top

ScoresEnough(tp, i) ==
    LET sib     == tp.node.kids[i]
        top     == tp.node.kids[tp.top]
        bonus10 == IF className(top) # "" /\ className(sib) = className(top)
                   THEN 2 * getContentScore(top) ELSE 0
        thr10   == IF 2 * getContentScore(top) > 100 * Unit
                   THEN 2 * getContentScore(top) ELSE 100 * Unit
    IN  hasContentScore(sib) /\ 10 * getContentScore(sib) + bonus10 >= thr10

LongParagraph(tp, i) ==
    LET sib == tp.node.kids[i]
    IN  /\ sib.tag = "p"
        /\ TextLength(sib) > 80
        /\ 4 * LinkLength(sib) < TextLength(sib)

ShortSentence(tp, i) ==
    LET sib == tp.node.kids[i]
        s   == getInnerText(sib, TRUE)
    IN  /\ sib.tag = "p"
        /\ TextLength(sib) \in 1..79
        /\ LinkLength(sib) = 0
        /\ \E j \in 1..Len(s) : s[j].c = "." /\ (j = Len(s) \/ s[j + 1].c = " ")

Included(tp) ==
    {i \in 1..Len(tp.node.kids) :
        /\ tp.node.kids[i].type = "elem"
        /\ \/ IsTheTop(tp, i)
           \/ ScoresEnough(tp, i)
           \/ LongParagraph(tp, i)
           \/ ShortSentence(tp, i)}

\* C24: the step from the top candidate to the article container puts into
\* the container, in their order, exactly the element children of the top
\* candidate's parent that are the top candidate, or have a score that with
\* the class bonus reaches max(10, topScore * 0.2), or are a p of more than
\* 80 characters with link density under 0.25, or are a p of 1..79
\* characters with link density 0 and a sentence period; a child whose tag
\* is not article, div, p or section goes in as a div, otherwise unchanged.
C24_Siblings ==
    [][\A p \in Procs :
          (L(p).pc = "top" /\ L(p)'.pc = "article") =>
              LET tp   == TopParent(p)
                  kids == L(p)'.article[1].kids
                  Nth(j) == CHOOSE i \in Included(tp) :
                                Cardinality({x \in Included(tp) : x <= i}) = j
              IN  /\ Len(kids) = Cardinality(Included(tp))
                  /\ \A j \in 1..Len(kids) :
                        LET sib == tp.node.kids[Nth(j)]
                        IN  kids[j] = IF sib.tag \in {"article", "div", "p", "section"}
                                      THEN sib ELSE [sib EXCEPT !.tag = "div"]]_vars

\* the article container has just been built from a parent with a child
\* that only the class bonus lets in, a child let in as a long paragraph
\* only, a child let in as a short sentence only, a child that is renamed
\* and an element child that stays out
C24_Witness ==
    \E p \in Procs :
        /\ L(p).pc = "article" /\ L(p).k = 1
        /\ LET tp == TopParent(p)
               top == tp.node.kids[tp.top]
               Only(i) == {r \in 1..4 :
                              \/ r = 1 /\ IsTheTop(tp, i)
                              \/ r = 2 /\ ScoresEnough(tp, i)
                              \/ r = 3 /\ LongParagraph(tp, i)
                              \/ r = 4 /\ ShortSentence(tp, i)}
               elems == {i \in 1..Len(tp.node.kids) : tp.node.kids[i].type = "elem"}
           IN  /\ \E i \in elems :
                     /\ Only(i) = {2}
                     /\ 10 * getContentScore(tp.node.kids[i]) < 100 * Unit
                     /\ tp.node.kids[i].tag = "form"
               /\ \E i \in elems : Only(i) = {2} /\ className(tp.node.kids[i]) # className(top)
               /\ \E i \in elems : Only(i) = {3}
               /\ \E i \in elems : Only(i) = {4}
               /\ \E i \in elems : Only(i) = {} /\ hasContentScore(tp.node.kids[i])
               /\ \E i \in elems : Only(i) = {} /\ TextLength(tp.node.kids[i]) = 80
               /\ \E i \in elems : Only(i) = {} /\ LinkLength(tp.node.kids[i]) > 0
               /\ Len(L(p).article[1].kids) = Cardinality(Included(tp))

\* the element n looks like a byline: it is visible, its rel is "author" or
\* its itemprop contains "author" or its class or id matches the byline
\* pattern, and its trimmed text has 1 to 99 characters
LooksLikeByline(n) ==
    /\ getAttribute(n, "style") \notin rxDisplayNone /\ ~hasAttribute(n, "hidden")
    /\ \/ getAttribute(n, "rel") = "author"
       \/ getAttribute(n, "itemprop") \in ContainsAuthor
       \/ className(n) \in rxByline
       \/ id(n) \in rxByline
    /\ StrLen(TrimSpace(textContent(n))) \in 1..99

\* Parse of p is between its reset and its return
InParse(p) == L(p).pc \notin {"idle", "reset", "done"}

\* C25: within one Parse the byline is written at most once: a recorded
\* byline is not changed by any later step of any attempt; the node
\* prepping loop records the text of the element it visits, and removes the
\* element, exactly when no byline is recorded and the element looks like a
\* byline; and the Byline of the returned article is the byline of the
\* metadata when that is not empty, and the recorded one otherwise.
C25_BylineOnce ==
    /\ [][\A p \in Procs :
            /\ InParse(p) /\ R(p).articleByline # <<>>
                  => R(p)'.articleByline = R(p).articleByline
            /\ L(p).pc = "prep" /\ L(p)' # L(p) =>
                  LET n == NodeAt(L(p).doc, L(p).node)
                  IN  IF R(p).articleByline = <<>> /\ LooksLikeByline(n)
                      THEN /\ R(p)'.articleByline = JoinFields(textContent(n))
                           /\ R(p)'.articleByline # <<>>
                           /\ L(p)'.doc = RemoveAt(L(p).doc, L(p).node)
                      ELSE R(p)'.articleByline = R(p).articleByline]_vars
    /\ [](\A p \in Procs :
            L(p).pc = "done" /\ L(p).result[1].err = NoError =>
                L(p).result[1].article.Byline =
                    IF L(p).metadata.Byline # <<>> THEN L(p).metadata.Byline
                    ELSE R(p).articleByline)

\* in a second or later attempt the loop stands at a visible element that
\* looks like a byline while the byline of the first attempt is recorded
C25_Witness ==
    \E p \in Procs :
        /\ L(p).pc = "prep"
        /\ Len(R(p).attempts) >= 1
        /\ R(p).articleByline = Lit(<<"A", "n", "n">>)
        /\ LooksLikeByline(NodeAt(L(p).doc, L(p).node))
        /\ getAttribute(NodeAt(L(p).doc, L(p).node), "rel") = "author"

\* one of the k nearest ancestors of the element at q is a table
TableWithin(doc, q, k) ==
    \E d \in 1..k :
        d <= Len(q) /\ tagName(NodeAt(doc, SubSeq(q, 1, Len(q) - d))) = "table"

\* the node prepping loop of p, with stripUnlikelys set, takes a step at an
\* element that it neither drops as hidden nor takes as the byline
UnlikelyTest(p) ==
    /\ L(p).pc = "prep" /\ L(p)' # L(p)
    /\ R(p).flags.stripUnlikelys
    /\ isProbablyVisible(NodeAt(L(p).doc, L(p).node))
    /\ ~checkByline(NodeAt(L(p).doc, L(p).node), R(p).articleByline)

\* the element the loop of p stands at is removed as an unlikely candidate
\* iff its class and id match the unlikely pattern and not the okMaybe
\* pattern, its tag is neither body nor a, and none of its k nearest
\* ancestors is a table (an element that is not unlikely can only be removed
\* as a block without content)
RemovedIffUnlikely(p, k) ==
    LET n == NodeAt(L(p).doc, L(p).node)
        unlikely ==
            /\ className(n) \in rxUnlikelyCandidates \/ id(n) \in rxUnlikelyCandidates
            /\ ~(className(n) \in rxOkMaybeItsACandidate \/ id(n) \in rxOkMaybeItsACandidate)
            /\ n.tag \notin {"body", "a"}
            /\ ~TableWithin(L(p).doc, L(p).node, k)
    IN  IF unlikely THEN L(p)'.doc = RemoveAt(L(p).doc, L(p).node)
        ELSE ~isElementWithoutContent(n) => L(p)'.doc # RemoveAt(L(p).doc, L(p).node)

\* C26 as stated: the ancestors that count are the three nearest ones.
C26_AsStated ==
    [][\A p \in Procs : UnlikelyTest(p) => RemovedIffUnlikely(p, 3)]_vars

\* C26: with stripUnlikelys set, node prepping removes an element as an
\* unlikely candidate iff its class and id match the unlikely pattern and
\* not the okMaybe pattern, its tag is neither body nor a, and none of its
\* four nearest ancestors is a table.
C26_FourAncestors ==
    [][\A p \in Procs : UnlikelyTest(p) => RemovedIffUnlikely(p, 4)]_vars

\* the loop has removed the unlikely candidate whose fifth ancestor is the
\* table and has kept the text of the one whose fourth ancestor is the table
C26_Witness ==
    \E p \in Procs :
        /\ L(p).pc = "score"
        /\ R(p).flags.stripUnlikelys
        /\ LET in == Docs[L(p).input]
               list == getElementsByTagName(in, "*")
               unlikely == SelectSeq(list, LAMBDA q :
                               className(NodeAt(in, q)) \in rxUnlikelyCandidates)
           IN  /\ Len(unlikely) = 2
               /\ TableWithin(in, unlikely[1], 4) /\ ~TableWithin(in, unlikely[1], 3)
               /\ ~TableWithin(in, unlikely[2], 4)
               /\ TextLength(NodeAt(L(p).doc, <<1, 2>>))
                     = TextLength(NodeAt(in, <<1, 2>>)) - TextLength(NodeAt(in, unlikely[2]))

\* the document of p as prepDocument has it before it renames the font
\* elements
BeforeRename(p) ==
    LET doc == removeScripts(Docs[L(p).input])
        d1 == removeNodes(doc, getElementsByTagName(doc, "style"), NilFilter)
        bodies == getElementsByTagName(d1, "body")
    IN  IF bodies = <<>> THEN d1 ELSE replaceBrs(d1, bodies[1])

\* C27 as stated: in the prepared document every font element has become a
\* span with its attributes and children: each element that was a font has
\* the tag name "span" and counts as phrasing content, and nothing else has
\* changed.
C27_AsStated ==
    \A p \in Procs :
        L(p).pc \in LoopPcs =>
            LET before == BeforeRename(p)
                fonts == getElementsByTagName(before, "font")
            IN  /\ \A i \in 1..Len(fonts) :
                      LET n == NodeAt(R(p).doc, fonts[i])
                      IN  /\ tagName(n) = "span"
                          /\ isPhrasingContent(n)
                          /\ n.attr = NodeAt(before, fonts[i]).attr
                          /\ Len(n.kids) = Len(NodeAt(before, fonts[i]).kids)
                /\ getElementsByTagName(R(p).doc, "*") = getElementsByTagName(before, "*")

\* the tree n without the class and id attributes of its elements
RECURSIVE NoClasses(_)
NoClasses(n) ==
    IF n.type = "text" THEN n
    ELSE [n EXCEPT !.attr = SelectSeq(n.attr, LAMBDA a : a.k \notin {"class", "id"}),
                   !.kids = [i \in 1..Len(n.kids) |-> NoClasses(n.kids[i])]]

\* the call of prepArticle that the step of p makes, if it makes one
Stage(p, name) == L(p).pc = "article" /\ PrepStages[L(p).k][1] = name

\* C28: a cleared flag switches its heuristic off.  With stripUnlikelys
\* cleared the node prepping loop removes only hidden elements, the byline
\* and blocks without content.  With useWeightClasses cleared a node that is
\* scored for the first time starts from its tag bias alone, cleanHeaders
\* changes nothing, and cleanConditionally removes what it removes from the
\* same tree without classes and ids.  With cleanConditionally cleared a
\* cleanConditionally call changes nothing.
C28_FlagsOff ==
    [][\A p \in Procs :
          LET l == L(p)
              f == R(p).flags
          IN  /\ (l.pc = "prep" /\ L(p)' # l /\ ~f.stripUnlikelys) =>
                    LET n == NodeAt(l.doc, l.node)
                    IN  (L(p)'.doc = RemoveAt(l.doc, l.node)) =>
                            \/ ~isProbablyVisible(n)
                            \/ R(p)'.articleByline # R(p).articleByline
                            \/ isElementWithoutContent(n)
              /\ (l.pc = "score" /\ L(p)' # l /\ ~f.useWeightClasses) =>
                    LET e == l.q[l.i]
                        innerText == getInnerText(NodeAt(l.doc, e), TRUE)
                        base == 1 + Count(innerText, ",")
                                  + (IF StrLen(innerText) \div 100 < 3
                                     THEN StrLen(innerText) \div 100 ELSE 3)
                    IN  \A lv \in 0..2 :
                           (/\ Len(e) >= lv + 2
                            /\ ~hasContentScore(NodeAt(l.doc, AncestorAt(e, lv)))
                            /\ hasContentScore(NodeAt(L(p)'.doc, AncestorAt(e, lv)))) =>
                               getContentScore(NodeAt(L(p)'.doc, AncestorAt(e, lv)))
                                 = TagBias(NodeAt(l.doc, AncestorAt(e, lv)).tag) * Unit
                                     + RoundDiv(base * Unit, <<1, 2, 6>>[lv + 1])
              /\ (Stage(p, "cleanHeaders") /\ ~f.useWeightClasses) =>
                    L(p)'.article = l.article
              /\ (Stage(p, "cleanConditionally") /\ ~f.useWeightClasses) =>
                    NoClasses(L(p)'.article[1])
                      = cleanConditionally(NoClasses(l.article[1]), PrepStages[l.k][2], f)
              /\ (Stage(p, "cleanConditionally") /\ ~f.cleanConditionally) =>
                    L(p)'.article = l.article]_vars

\* the fourth attempt has gone through prepArticle with no flag left: the
\* article of the second attempt holds an element with an unlikely id, that
\* of the third a header and a form with a negative class and no form with
\* an input, and that of the fourth the form with an input
C28_Witness ==
    \E p \in Procs :
        /\ L(p).pc = "check"
        /\ FlagTuple(R(p).flags) = <<FALSE, FALSE, FALSE>>
        /\ Len(R(p).attempts) = 3
        /\ LET Has(t, tag, rx) ==
                   \E i \in 1..Len(getElementsByTagName(t, tag)) :
                       MatchString(rx, NodeAt(t, getElementsByTagName(t, tag)[i]))
               a1 == R(p).attempts[1].articleContent
               a2 == R(p).attempts[2].articleContent
               a3 == R(p).attempts[3].articleContent
           IN  /\ ~Has(a1, "*", rxUnlikelyCandidates) /\ ~Has(a1, "*", rxNegative)
               /\ Has(a2, "*", rxUnlikelyCandidates)
               /\ ~Has(a2, "h2", rxNegative) /\ ~Has(a2, "form", rxNegative)
               /\ Has(a3, "h2", rxNegative) /\ Has(a3, "form", rxNegative)
               /\ getElementsByTagName(a3, "form") # <<>>
               /\ \A i \in 1..Len(getElementsByTagName(a3, "form")) :
                     getElementsByTagName(NodeAt(a3, getElementsByTagName(a3, "form")[i]),
                                          "input") = <<>>
               /\ Len(getElementsByTagName(L(p).article[1], "form")) = 2

\* the texts of the text nodes of the tree n that are not white space only
\* and lie outside style elements, in document order
RECURSIVE VisibleTexts(_)
VisibleTexts(n) ==
    IF n.type = "text" THEN (IF TrimSpace(n.text) = <<>> THEN <<>> ELSE <<n.text>>)
    ELSE IF tagName(n) = "style" THEN <<>>
    ELSE LET F[i \in 0..Len(n.kids)] ==
                 IF i = 0 THEN <<>> ELSE F[i - 1] \o VisibleTexts(n.kids[i])
         IN  F[Len(n.kids)]

\* C29 as stated: the text nodes of the body that are not white space only
\* and lie outside style elements are the same, in the same order, before
\* and after prepDocument.
C29_AsStated ==
    \A p \in Procs :
        L(p).pc = "meta" =>
            LET before == removeScripts(Docs[L(p).input])
                bodies == getElementsByTagName(before, "body")
            IN  bodies # <<>> =>
                    VisibleTexts(Body(p)) = VisibleTexts(NodeAt(before, bodies[1]))

\* the tree n without the score and data table attributes of its elements
RECURSIVE WithoutMarks(_)
WithoutMarks(n) ==
    IF n.type = "text" THEN n
    ELSE [n EXCEPT !.attr = SelectSeq(n.attr, LAMBDA a : a.k \notin {ScoreKey, TableKey}),
                   !.kids = [i \in 1..Len(n.kids) |-> WithoutMarks(n.kids[i])]]

\* C30 as stated: Parse returns the same for two documents that differ only
\* in the score and data table attributes of their elements: what the Parse
\* of p returns is what a Parse with the same options and page URL returns
\* for every other document of the model that is the same without these
\* attributes.
C30_AsStated ==
    \A p \in Procs :
        L(p).pc = "done" /\ L(p).result # <<>> =>
            \A d \in 1..NumDocs :
                (d # L(p).input /\ WithoutMarks(Docs[d]) = WithoutMarks(Docs[L(p).input])) =>
                    L(p).result = Fresh(R(p), d, L(p).pageURL)

====
